---- MODULE Spec2Model ----
(***************************************************************************)
(* A model of dezer: the visitor-pattern serialization core, its runtime   *)
(* validation layer, the code generator's output and the JSON and YAML     *)
(* backends.                                                               *)
(*                                                                         *)
(* JavaScript values are records [k, v]: k is the value's kind and v its   *)
(* payload.  Strings are sequences of one-character strings, so that the   *)
(* text operations of the source (template strings, includes, indexOf,     *)
(* substring, trim) are computed character by character.                   *)
(*                                                                         *)
(* A run has its inputs (input), the last call made (call), the text a     *)
(* serializer produced (text), the outcome of the last call (ret) and the  *)
(* stateful object the calls act on, if any (obj): a visitor that records  *)
(* the visits it receives, a cursor, or a serializer with its buffer.      *)
(***************************************************************************)
EXTENDS Integers, Sequences, FiniteSets, TLC

VARIABLES input, call, text, ret, obj

vars == <<input, call, text, ret, obj>>

(***************************************************************************)
(* Bounds of the model.                                                    *)
(***************************************************************************)
MaxArr == 3

(***************************************************************************)
(* JavaScript values.                                                      *)
(***************************************************************************)
Undef == [k |-> "undefined", v |-> 0]
Null == [k |-> "null", v |-> 0]
NaN == [k |-> "nan", v |-> 0]
Bool(b) == [k |-> "boolean", v |-> b]
Num(n) == [k |-> "number", v |-> n]
Str(s) == [k |-> "string", v |-> s]
Arr(s) == [k |-> "array", v |-> s]
Obj(entries) == [k |-> "object", v |-> entries]

\* The typeof operator.
TypeOf(x) ==
    CASE x.k = "undefined" -> "undefined"
      [] x.k = "boolean" -> "boolean"
      [] x.k \in {"number", "nan", "decimal"} -> "number"
      [] x.k = "string" -> "string"
      [] x.k = "function" -> "function"
      [] OTHER -> "object"

\* Array.isArray
IsArray(x) == x.k = "array"

\* isNaN on a value of type number
IsNaN(x) == x.k = "nan"

(***************************************************************************)
(* Outcomes of a call: a returned value or a thrown error.                 *)
(***************************************************************************)
Ok(x) == [ok |-> TRUE, v |-> x]
Throw(e) == [ok |-> FALSE, v |-> e]

\* Decimal rendering of a non-negative integer, as template strings do.
Digit(d) == <<"0", "1", "2", "3", "4", "5", "6", "7", "8", "9">>[d + 1]

RECURSIVE IntToStr(_)
IntToStr(n) == IF n < 10 THEN <<Digit(n)>> ELSE IntToStr(n \div 10) \o <<Digit(n % 10)>>

\* A path that counts the elements from one.
IndexedPath_oneBased(fieldPath, i) == fieldPath \o <<"[">> \o IntToStr(i + 1) \o <<"]">>

\* `${fieldPath}[${i}]`
IndexedPath(fieldPath, i) == fieldPath \o <<"[">> \o IntToStr(i) \o <<"]">>

\* new ValidationError(`Field '${fieldPath}' expected ${expected}, got ${got}`)
ValidationError(fieldPath, expected, got) ==
    [name |-> "ValidationError", path |-> fieldPath, expected |-> expected, got |-> got]

(***************************************************************************)
(* The validation layer.                                                   *)
(***************************************************************************)
validateString(value, fieldPath) ==
    IF TypeOf(value) # "string"
    THEN Throw(ValidationError(fieldPath, "string", TypeOf(value)))
    ELSE Ok(value)

\* validateNumber without its isNaN check.
validateNumber_acceptNaN(value, fieldPath) ==
    IF TypeOf(value) # "number"
    THEN Throw(ValidationError(fieldPath, "number", TypeOf(value)))
    ELSE Ok(value)

validateNumber(value, fieldPath) ==
    IF TypeOf(value) # "number"
    THEN Throw(ValidationError(fieldPath, "number", TypeOf(value)))
    ELSE IF IsNaN(value)
    THEN Throw(ValidationError(fieldPath, "valid number", "NaN"))
    ELSE Ok(value)

validateBoolean(value, fieldPath) ==
    IF TypeOf(value) # "boolean"
    THEN Throw(ValidationError(fieldPath, "boolean", TypeOf(value)))
    ELSE Ok(value)

validateArray(value, fieldPath) ==
    IF ~IsArray(value)
    THEN Throw(ValidationError(fieldPath, "array", TypeOf(value)))
    ELSE Ok(value)

validateObject(value, fieldPath) ==
    IF TypeOf(value) # "object" \/ value.k = "null" \/ IsArray(value)
    THEN Throw(ValidationError(fieldPath, "object", TypeOf(value)))
    ELSE Ok(value)

\* The element loops: i is the 0-based index of the source, array.v[i + 1] the element.
RECURSIVE StringArrayLoop(_, _, _)
StringArrayLoop(array, fieldPath, i) ==
    IF i >= Len(array.v) THEN Ok(array)
    ELSE IF TypeOf(array.v[i + 1]) # "string"
    THEN Throw(ValidationError(IndexedPath(fieldPath, i), "string", TypeOf(array.v[i + 1])))
    ELSE StringArrayLoop(array, fieldPath, i + 1)

validateStringArray(value, fieldPath) ==
    LET array == validateArray(value, fieldPath)
    IN  IF ~array.ok THEN array ELSE StringArrayLoop(array.v, fieldPath, 0)

RECURSIVE NumberArrayLoop(_, _, _)
NumberArrayLoop(array, fieldPath, i) ==
    IF i >= Len(array.v) THEN Ok(array)
    ELSE IF TypeOf(array.v[i + 1]) # "number"
    THEN Throw(ValidationError(IndexedPath(fieldPath, i), "number", TypeOf(array.v[i + 1])))
    ELSE IF IsNaN(array.v[i + 1])
    THEN Throw(ValidationError(IndexedPath(fieldPath, i), "valid number", "NaN"))
    ELSE NumberArrayLoop(array, fieldPath, i + 1)

validateNumberArray(value, fieldPath) ==
    LET array == validateArray(value, fieldPath)
    IN  IF ~array.ok THEN array ELSE NumberArrayLoop(array.v, fieldPath, 0)

RECURSIVE BooleanArrayLoop(_, _, _)
BooleanArrayLoop(array, fieldPath, i) ==
    IF i >= Len(array.v) THEN Ok(array)
    ELSE IF TypeOf(array.v[i + 1]) # "boolean"
    THEN Throw(ValidationError(IndexedPath(fieldPath, i), "boolean", TypeOf(array.v[i + 1])))
    ELSE BooleanArrayLoop(array, fieldPath, i + 1)

validateBooleanArray(value, fieldPath) ==
    LET array == validateArray(value, fieldPath)
    IN  IF ~array.ok THEN array ELSE BooleanArrayLoop(array.v, fieldPath, 0)

RECURSIVE ObjectArrayLoop(_, _, _)
ObjectArrayLoop(array, fieldPath, i) ==
    IF i >= Len(array.v) THEN Ok(array)
    ELSE IF TypeOf(array.v[i + 1]) # "object" \/ array.v[i + 1].k = "null" \/ IsArray(array.v[i + 1])
    THEN Throw(ValidationError(IndexedPath(fieldPath, i), "object", TypeOf(array.v[i + 1])))
    ELSE ObjectArrayLoop(array, fieldPath, i + 1)

validateObjectArray(value, fieldPath) ==
    LET array == validateArray(value, fieldPath)
    IN  IF ~array.ok THEN array ELSE ObjectArrayLoop(array.v, fieldPath, 0)

(***************************************************************************)
(* Objects: the own enumerable string-keyed properties, in insertion       *)
(* order, as a sequence of <<key, value>> pairs.                           *)
(***************************************************************************)
HasProp(entries, key) == \E i \in 1..Len(entries) : entries[i][1] = key

\* object[key]: undefined when the object has no such property.
GetProp(entries, key) ==
    IF HasProp(entries, key)
    THEN entries[CHOOSE i \in 1..Len(entries) : entries[i][1] = key][2]
    ELSE Undef

\* object[key] = value: an existing property keeps its place.
SetProp(entries, key, value) ==
    IF HasProp(entries, key)
    THEN [i \in 1..Len(entries) |->
            IF entries[i][1] = key THEN <<key, value>> ELSE entries[i]]
    ELSE Append(entries, <<key, value>>)

\* Dates: a valid Date holds its time value; an invalid one holds NaN.
DateOf(t) == [k |-> "date", v |-> t]
InvalidDate == [k |-> "invalidDate", v |-> 0]

\* An instance of a class: its prototype (the class name) and own properties.
Instance(cls, props) == [k |-> "instance", v |-> [cls |-> cls, props |-> props]]

\* Date.prototype.toISOString of a valid date whose time value is 0..9 ms:
\* 1970-01-01T00:00:00.00dZ
ISOPrefix ==
    <<"1", "9", "7", "0", "-", "0", "1", "-", "0", "1", "T",
      "0", "0", ":", "0", "0", ":", "0", "0", ".", "0", "0">>

ToISOString(d) == ISOPrefix \o <<Digit(d.v % 10), "Z">>

\* new Date(string).getTime(): -1 stands for NaN, an unparseable text.
\* Date.parse reading whole seconds only.
DateParse_seconds(s) ==
    IF /\ Len(s) = Len(ISOPrefix) + 2
       /\ SubSeq(s, 1, Len(ISOPrefix)) = ISOPrefix
       /\ s[Len(s)] = "Z"
       /\ \E t \in 0..9 : s[Len(s) - 1] = Digit(t)
    THEN 0
    ELSE -1

DateParse(s) ==
    IF /\ Len(s) = Len(ISOPrefix) + 2
       /\ SubSeq(s, 1, Len(ISOPrefix)) = ISOPrefix
       /\ s[Len(s)] = "Z"
       /\ \E t \in 0..9 : s[Len(s) - 1] = Digit(t)
    THEN CHOOSE t \in 0..9 : s[Len(s) - 1] = Digit(t)
    ELSE -1

validateDate(value, fieldPath) ==
    IF value.k \in {"date", "invalidDate"}
    THEN IF value.k = "invalidDate"
         THEN Throw(ValidationError(fieldPath, "valid Date", "invalid Date"))
         ELSE Ok(value)
    ELSE IF TypeOf(value) = "string"
    THEN IF DateParse(value.v) = -1
         THEN Throw(ValidationError(fieldPath, "valid date string", "invalid date"))
         ELSE Ok(DateOf(DateParse(value.v)))
    ELSE Throw(ValidationError(fieldPath, "Date or date string", TypeOf(value)))

(***************************************************************************)
(* The code generator.  A type string is [base, arr]: arr says the string  *)
(* ends with "[]" and base is the string without that suffix.              *)
(*                                                                         *)
(* A ParsedField is                                                        *)
(*   [propertyName, type, options, isOptional, isIgnored]                  *)
(* and its FieldOptions are                                                *)
(*   [name, transform, skip, skipSerializing, skipDeserializing,           *)
(*    required, default]                                                   *)
(* where an option that is not given is Undef (transform: FALSE).          *)
(***************************************************************************)
TypeStr(base) == [base |-> base, arr |-> FALSE]
ArrayOf(base) == [base |-> base, arr |-> TRUE]

NoOptions ==
    [name |-> Undef, transform |-> FALSE, skip |-> Undef, skipSerializing |-> Undef,
     skipDeserializing |-> Undef, required |-> Undef, default |-> Undef]

\* JavaScript truthiness of an option value.
Truthy(x) ==
    CASE x.k \in {"undefined", "null", "nan"} -> FALSE
      [] x.k = "boolean" -> x.v
      [] x.k = "number" -> x.v # 0
      [] x.k = "string" -> x.v # <<>>
      [] OTHER -> TRUE

\* options.name || propertyName
SerializedName(field) ==
    IF Truthy(field.options.name) THEN field.options.name.v ELSE field.propertyName

\* The type names whose first character is its own upper case.
UpperInitial == {"Date", "User", "Post", "Blog", "T"}

isUserDefinedType(type) ==
    LET builtInTypes == {"string", "number", "boolean", "Date", "any", "unknown",
                         "void", "undefined", "null"}
    IN  type.base \in UpperInitial /\ (type.arr \/ type.base \notin builtInTypes)

\* The expression handed to struct.serializeField: how the property is read.
generateValueSerialization(type) ==
    IF type = TypeStr("Date") THEN "toISOString" ELSE "asIs"

\* A generator that writes every field under its property name.
generateFieldSerialization_propertyKey(field) ==
    [key |-> field.propertyName, prop |-> field.propertyName,
     expr |-> IF field.options.transform THEN "transform"
              ELSE generateValueSerialization(field.type)]

generateFieldSerialization(field) ==
    IF field.options.transform
    THEN [key |-> SerializedName(field), prop |-> field.propertyName, expr |-> "transform"]
    ELSE [key |-> SerializedName(field), prop |-> field.propertyName,
          expr |-> generateValueSerialization(field.type)]

\* fields.filter((f) => !f.isIgnored)
RECURSIVE SerializableFields(_)
SerializableFields(fields) ==
    IF fields = <<>> THEN <<>>
    ELSE IF Head(fields).isIgnored THEN SerializableFields(Tail(fields))
    ELSE <<Head(fields)>> \o SerializableFields(Tail(fields))

\* A generator that announces every parsed field, ignored ones included.
generateSerializeMethod_countAll(className, fields) ==
    LET serializableFields == SerializableFields(fields)
    IN  [struct |-> className,
         len |-> Len(fields),
         fieldSerializations |->
            [i \in 1..Len(serializableFields) |->
                generateFieldSerialization(serializableFields[i])]]

generateSerializeMethod(className, fields) ==
    LET serializableFields == SerializableFields(fields)
    IN  [struct |-> className,
         len |-> Len(serializableFields),
         fieldSerializations |->
            [i \in 1..Len(serializableFields) |->
                generateFieldSerialization(serializableFields[i])]]

\* The call the generated case makes on the raw value.
generateValueDeserialization(type, fieldPath) ==
    IF ~type.arr /\ type.base \in {"Date", "string", "number", "boolean"}
    THEN [fn |-> CASE type.base = "Date" -> "validateDate"
                   [] type.base = "string" -> "validateString"
                   [] type.base = "number" -> "validateNumber"
                   [] type.base = "boolean" -> "validateBoolean",
          ctor |-> "", fieldPath |-> fieldPath]
    ELSE IF type.arr
    THEN IF type.base \in {"string", "number", "boolean"}
         THEN [fn |-> CASE type.base = "string" -> "validateStringArray"
                        [] type.base = "number" -> "validateNumberArray"
                        [] type.base = "boolean" -> "validateBooleanArray",
               ctor |-> "", fieldPath |-> fieldPath]
         ELSE IF isUserDefinedType(TypeStr(type.base))
         THEN [fn |-> "deserializeObjectArray", ctor |-> type.base, fieldPath |-> fieldPath]
         ELSE [fn |-> "validateObjectArray", ctor |-> "", fieldPath |-> fieldPath]
    ELSE IF isUserDefinedType(type)
    THEN [fn |-> "deserializeNestedObject", ctor |-> type.base, fieldPath |-> fieldPath]
    ELSE [fn |-> "validateObject", ctor |-> "", fieldPath |-> fieldPath]

\* A generator that labels each case with the property name, not the output name.
generateFieldMapping_propertyKey(field) ==
    [key |-> field.propertyName, prop |-> field.propertyName,
     guarded |-> field.isOptional /\ ~field.options.transform,
     deser |-> IF field.options.transform
               THEN [fn |-> "transform", ctor |-> "", fieldPath |-> field.propertyName]
               ELSE generateValueDeserialization(field.type, field.propertyName)]

\* One case of the generated switch: the key it matches, the property it
\* assigns, whether the assignment is guarded by value !== undefined, and the
\* call that produces the assigned value.
generateFieldMapping(field) ==
    LET fieldPath == field.propertyName
    IN  IF field.options.transform
        THEN [key |-> SerializedName(field), prop |-> field.propertyName, guarded |-> FALSE,
              deser |-> [fn |-> "transform", ctor |-> "", fieldPath |-> fieldPath]]
        ELSE [key |-> SerializedName(field), prop |-> field.propertyName,
              guarded |-> field.isOptional,
              deser |-> generateValueDeserialization(field.type, fieldPath)]

generateDeserializeMethod(className, fields) ==
    LET serializableFields == SerializableFields(fields)
    IN  [struct |-> className,
         fieldNames |-> [i \in 1..Len(serializableFields) |->
                            SerializedName(serializableFields[i])],
         fieldMappings |-> [i \in 1..Len(serializableFields) |->
                            generateFieldMapping(serializableFields[i])]]

(***************************************************************************)
(* The classes that exist at run time: those of examples/model.ts and T,   *)
(* the class under test, whose fields are an input of the run.             *)
(***************************************************************************)
S_name == <<"n", "a", "m", "e">>
S_email == <<"e", "m", "a", "i", "l">>
S_email_address == <<"e", "m", "a", "i", "l", "_", "a", "d", "d", "r", "e", "s", "s">>
S_age == <<"a", "g", "e">>
S_password == <<"p", "a", "s", "s", "w", "o", "r", "d">>

Field(propertyName, type) ==
    [propertyName |-> propertyName, type |-> type, options |-> NoOptions,
     isOptional |-> FALSE, isIgnored |-> FALSE]

UserFields ==
    << Field(S_name, TypeStr("string")),
       [Field(S_email, TypeStr("string")) EXCEPT !.options.name = Str(S_email_address)],
       [Field(S_age, TypeStr("number")) EXCEPT !.isOptional = TRUE,
                                               !.options.required = Bool(FALSE)],
       [Field(S_password, TypeStr("string")) EXCEPT !.isIgnored = TRUE] >>

S_tags == <<"t", "a", "g", "s">>
S_title == <<"t", "i", "t", "l", "e">>
S_content == <<"c", "o", "n", "t", "e", "n", "t">>
S_author == <<"a", "u", "t", "h", "o", "r">>
S_createdAt == <<"c", "r", "e", "a", "t", "e", "d", "A", "t">>
S_description == <<"d", "e", "s", "c", "r", "i", "p", "t", "i", "o", "n">>
S_posts == <<"p", "o", "s", "t", "s">>
S_authors == <<"a", "u", "t", "h", "o", "r", "s">>

PostFields ==
    << Field(S_title, TypeStr("string")),
       Field(S_content, TypeStr("string")),
       Field(S_author, TypeStr("User")),
       Field(S_createdAt, TypeStr("Date")),
       Field(S_tags, ArrayOf("string")) >>

BlogFields ==
    << Field(S_name, TypeStr("string")),
       Field(S_description, TypeStr("string")),
       Field(S_posts, ArrayOf("Post")),
       Field(S_authors, ArrayOf("User")) >>

ClassFields(cls) ==
    CASE cls = "User" -> UserFields
      [] cls = "Post" -> PostFields
      [] cls = "Blog" -> BlogFields
      [] cls = "T" -> input.cls

(***************************************************************************)
(* Errors other than ValidationError.                                      *)
(***************************************************************************)
DeserializationError(expected, got) ==
    [name |-> "DeserializationError", path |-> <<>>, expected |-> expected, got |-> got]

RangeError == [name |-> "RangeError", path |-> <<>>, expected |-> "", got |-> ""]

SyntaxError == [name |-> "SyntaxError", path |-> <<>>, expected |-> "", got |-> ""]

(***************************************************************************)
(* The JSON serializer.  output is JsonSerializer.output; object is the    *)
(* record a JsonStructSerializer accumulates.                              *)
(***************************************************************************)
\* typeof value === "object" && value !== null && SERIALIZE in value
HasSerialize(value) == value.k = "instance"

\* JsonSerializer.getResult
JsonGetResult(output) == IF Len(output) = 1 THEN output[1] ELSE Arr(output)

\* The value of the expression a generated serializeField call is given;
\* this.x?.toISOString?.() throws a RangeError on an invalid Date.
EvalFieldExpr(expr, self, prop) ==
    LET x == GetProp(self.v.props, prop)
    IN  IF expr = "toISOString"
        THEN CASE x.k = "date" -> Ok(Str(ToISOString(x)))
               [] x.k = "invalidDate" -> Throw(RangeError)
               [] OTHER -> Ok(Undef)
        ELSE Ok(x)

RECURSIVE JsonSerializeInstance(_, _)
RECURSIVE JsonSerializeField(_, _, _)
RECURSIVE JsonSerializeFields(_, _, _, _)

\* JsonStructSerializer.serializeField: the object after the call.
JsonSerializeField(object, name, value) ==
    IF HasSerialize(value)
    THEN LET nested == JsonSerializeInstance(value, <<>>)
         IN  IF ~nested.ok THEN nested
             ELSE Ok(SetProp(object, name, JsonGetResult(nested.v)))
    ELSE Ok(SetProp(object, name, value))

\* The serializeField calls of a generated [SERIALIZE], from the i-th on.
JsonSerializeFields(calls, i, self, object) ==
    IF i > Len(calls) THEN Ok(object)
    ELSE LET value == EvalFieldExpr(calls[i].expr, self, calls[i].prop)
         IN  IF ~value.ok THEN value
             ELSE LET next == JsonSerializeField(object, calls[i].key, value.v)
                  IN  IF ~next.ok THEN next
                      ELSE JsonSerializeFields(calls, i + 1, self, next.v)

\* value[SERIALIZE](serializer) on a JsonSerializer whose buffer is output:
\* serializeStruct, the serializeField calls, then end() pushes the object.
JsonSerializeInstance(self, output) ==
    LET method == generateSerializeMethod(self.v.cls, ClassFields(self.v.cls))
        object == JsonSerializeFields(method.fieldSerializations, 1, self, <<>>)
    IN  IF ~object.ok THEN object ELSE Ok(Append(output, Obj(object.v)))

(***************************************************************************)
(* JSON text: a sequence of tokens [k, v].  JSONstringify renders a value  *)
(* as ECMAScript's JSON.stringify does (undefined-valued properties are    *)
(* left out, undefined array elements and non-finite numbers become null,  *)
(* a Date is rendered through toJSON, an instance through its own          *)
(* properties); JSONparse reads a well-formed text back.                   *)
(***************************************************************************)
Punct(c) == [k |-> "punct", v |-> c]
Lit(w) == [k |-> "lit", v |-> w]
NumTok(n) == [k |-> "num", v |-> n]
StrTok(chars) == [k |-> "str", v |-> chars]

RECURSIVE JSONstringify(_)
RECURSIVE StringifyElements(_, _)
RECURSIVE StringifyMembers(_, _, _)

StringifyElements(elems, i) ==
    IF i > Len(elems) THEN <<>>
    ELSE (IF i > 1 THEN <<Punct(",")>> ELSE <<>>)
         \o (IF elems[i].k = "undefined" THEN <<Lit("null")>> ELSE JSONstringify(elems[i]))
         \o StringifyElements(elems, i + 1)

\* first: no member has been written yet.
StringifyMembers(entries, i, first) ==
    IF i > Len(entries) THEN <<>>
    ELSE IF entries[i][2].k = "undefined" THEN StringifyMembers(entries, i + 1, first)
    ELSE (IF first THEN <<>> ELSE <<Punct(",")>>)
         \o <<StrTok(entries[i][1]), Punct(":")>> \o JSONstringify(entries[i][2])
         \o StringifyMembers(entries, i + 1, FALSE)

\* The text of a value; <<>> when JSON.stringify returns undefined.
JSONstringify(x) ==
    CASE x.k = "undefined" -> <<>>
      [] x.k \in {"null", "nan", "invalidDate"} -> <<Lit("null")>>
      [] x.k = "boolean" -> <<Lit(IF x.v THEN "true" ELSE "false")>>
      [] x.k = "number" -> <<NumTok(x.v)>>
      [] x.k = "string" -> <<StrTok(x.v)>>
      [] x.k = "date" -> <<StrTok(ToISOString(x))>>
      [] x.k = "array" -> <<Punct("[")>> \o StringifyElements(x.v, 1) \o <<Punct("]")>>
      [] x.k = "object" -> <<Punct("{")>> \o StringifyMembers(x.v, 1, TRUE) \o <<Punct("}")>>
      [] x.k = "instance" ->
            <<Punct("{")>> \o StringifyMembers(x.v.props, 1, TRUE) \o <<Punct("}")>>

RECURSIVE ParseValue(_, _)
RECURSIVE ParseElements(_, _, _)
RECURSIVE ParseMembers(_, _, _)

\* The value that starts at token i, and the index after it.
ParseValue(toks, i) ==
    LET tok == toks[i]
    IN  CASE tok.k = "lit" ->
                [v |-> CASE tok.v = "null" -> Null
                         [] tok.v = "true" -> Bool(TRUE)
                         [] tok.v = "false" -> Bool(FALSE),
                 next |-> i + 1]
          [] tok.k = "num" -> [v |-> Num(tok.v), next |-> i + 1]
          [] tok.k = "str" -> [v |-> Str(tok.v), next |-> i + 1]
          [] tok = Punct("[") ->
                IF toks[i + 1] = Punct("]") THEN [v |-> Arr(<<>>), next |-> i + 2]
                ELSE ParseElements(toks, i + 1, <<>>)
          [] tok = Punct("{") ->
                IF toks[i + 1] = Punct("}") THEN [v |-> Obj(<<>>), next |-> i + 2]
                ELSE ParseMembers(toks, i + 1, <<>>)

ParseElements(toks, i, acc) ==
    LET elem == ParseValue(toks, i)
    IN  IF toks[elem.next] = Punct(",")
        THEN ParseElements(toks, elem.next + 1, Append(acc, elem.v))
        ELSE [v |-> Arr(Append(acc, elem.v)), next |-> elem.next + 1]

ParseMembers(toks, i, acc) ==
    LET member == ParseValue(toks, i + 2)
    IN  IF toks[member.next] = Punct(",")
        THEN ParseMembers(toks, member.next + 1, SetProp(acc, toks[i].v, member.v))
        ELSE [v |-> Obj(SetProp(acc, toks[i].v, member.v)), next |-> member.next + 1]

\* JSON.parse of a text JSONstringify wrote; no text at all is a SyntaxError.
JSONparse(toks) == IF toks = <<>> THEN Throw(SyntaxError) ELSE Ok(ParseValue(toks, 1).v)

(***************************************************************************)
(* The deserializer side: JsonDeserializer.deserializeStruct, the          *)
(* JsonMapAccess cursor and the generated visitor.                         *)
(***************************************************************************)
\* Object.entries
RECURSIVE IndexEntries(_, _)
IndexEntries(elems, i) ==
    IF i > Len(elems) THEN <<>>
    ELSE <<<<IntToStr(i - 1), elems[i]>>>> \o IndexEntries(elems, i + 1)

ObjectEntries(x) ==
    CASE x.k = "object" -> x.v
      [] x.k = "instance" -> x.v.props
      [] x.k = "array" -> IndexEntries(x.v, 1)
      [] OTHER -> <<>>

\* switch (key): the first case whose label is the key, 0 when none is.
MatchingCase(fieldMappings, key) ==
    IF \E i \in 1..Len(fieldMappings) : fieldMappings[i].key = key
    THEN CHOOSE i \in 1..Len(fieldMappings) :
            /\ fieldMappings[i].key = key
            /\ \A j \in 1..(i - 1) : fieldMappings[j].key # key
    ELSE 0

RECURSIVE Deserialize(_, _)
RECURSIVE VisitMap(_, _, _, _)
RECURSIVE deserializeNestedObject(_, _, _)
RECURSIVE ObjectArrayElements(_, _, _, _, _)
RECURSIVE deserializeObjectArray(_, _, _)
RECURSIVE CallDeserialization(_, _)

\* The right-hand side of a generated case, applied to the raw value.
CallDeserialization(deser, value) ==
    CASE deser.fn = "transform" -> Ok(value)
      [] deser.fn = "validateDate" -> validateDate(value, deser.fieldPath)
      [] deser.fn = "validateString" -> validateString(value, deser.fieldPath)
      [] deser.fn = "validateNumber" -> validateNumber(value, deser.fieldPath)
      [] deser.fn = "validateBoolean" -> validateBoolean(value, deser.fieldPath)
      [] deser.fn = "validateStringArray" -> validateStringArray(value, deser.fieldPath)
      [] deser.fn = "validateNumberArray" -> validateNumberArray(value, deser.fieldPath)
      [] deser.fn = "validateBooleanArray" -> validateBooleanArray(value, deser.fieldPath)
      [] deser.fn = "validateObjectArray" -> validateObjectArray(value, deser.fieldPath)
      [] deser.fn = "validateObject" -> validateObject(value, deser.fieldPath)
      [] deser.fn = "deserializeNestedObject" ->
            deserializeNestedObject(value, deser.ctor, deser.fieldPath)
      [] deser.fn = "deserializeObjectArray" ->
            deserializeObjectArray(value, deser.ctor, deser.fieldPath)

\* A visitor that gives up at the first invalid entry and returns what it has built.
VisitMap_partial(method, entries, index, props) ==
    IF index >= Len(entries) THEN Ok(Instance(method.struct, props))
    ELSE LET key == entries[index + 1][1]
             value == entries[index + 1][2]
             c == MatchingCase(method.fieldMappings, key)
         IN  IF c = 0 THEN VisitMap(method, entries, index + 1, props)
             ELSE IF method.fieldMappings[c].guarded /\ value.k = "undefined"
             THEN VisitMap(method, entries, index + 1, props)
             ELSE LET r == CallDeserialization(method.fieldMappings[c].deser, value)
                  IN  IF ~r.ok THEN Ok(Instance(method.struct, props))
                      ELSE VisitMap(method, entries, index + 1,
                                    SetProp(props, method.fieldMappings[c].prop, r.v))

\* The generated visitMap from entry number index (0-based) on: props are the
\* properties assigned so far to the instance made by Object.create.
VisitMap(method, entries, index, props) ==
    IF index >= Len(entries) THEN Ok(Instance(method.struct, props))
    ELSE LET key == entries[index + 1][1]
             value == entries[index + 1][2]
             c == MatchingCase(method.fieldMappings, key)
         IN  IF c = 0 THEN VisitMap(method, entries, index + 1, props)
             ELSE IF method.fieldMappings[c].guarded /\ value.k = "undefined"
             THEN VisitMap(method, entries, index + 1, props)
             ELSE LET r == CallDeserialization(method.fieldMappings[c].deser, value)
                  IN  IF ~r.ok THEN r
                      ELSE VisitMap(method, entries, index + 1,
                                    SetProp(props, method.fieldMappings[c].prop, r.v))

\* JsonDeserializer.deserializeStruct with the generated visitor.
deserializeStruct(data, method) ==
    IF TypeOf(data) = "object" /\ data.k # "null" /\ ~IsArray(data)
    THEN VisitMap(method, ObjectEntries(data), 0, <<>>)
    ELSE Throw(DeserializationError("object", TypeOf(data)))

\* ctor.prototype[DESERIALIZE](deserializer), the deserializer wrapping data.
Deserialize(ctor, data) ==
    deserializeStruct(data, generateDeserializeMethod(ctor, ClassFields(ctor)))

\* ctor.prototype && ctor.prototype[DESERIALIZE]: the classes that carry a
\* generated method; a class declared without the decorator has none.
HasDeserialize(ctor) == ctor \in {"User", "Post", "Blog", "T"}

\* deserializeNestedObject without its validateObject call.
deserializeNestedObject_unchecked(value, ctor, fieldPath) ==
    IF HasDeserialize(ctor) THEN Deserialize(ctor, value)
    ELSE Ok(Instance(ctor, ObjectEntries(value)))

\* The deserializer argument is used for its constructor only: the nested
\* deserializer is new (deserializer.constructor)(value). Without a generated
\* method the fallback is Object.assign(Object.create(ctor.prototype), value).
deserializeNestedObject(value, ctor, fieldPath) ==
    LET checked == validateObject(value, fieldPath)
    IN  IF ~checked.ok THEN checked
        ELSE IF HasDeserialize(ctor) THEN Deserialize(ctor, value)
        ELSE Ok(Instance(ctor, ObjectEntries(value)))

\* A loop that leaves a failing element out and goes on with the next.
RECURSIVE ObjectArrayElements_skipFailed(_, _, _, _, _)
ObjectArrayElements_skipFailed(array, ctor, fieldPath, i, result) ==
    IF i >= Len(array) THEN Ok(Arr(result))
    ELSE LET elem == deserializeNestedObject(array[i + 1], ctor, IndexedPath(fieldPath, i))
         IN  ObjectArrayElements_skipFailed(array, ctor, fieldPath, i + 1,
                                            IF elem.ok THEN Append(result, elem.v) ELSE result)

ObjectArrayElements(array, ctor, fieldPath, i, result) ==
    IF i >= Len(array) THEN Ok(Arr(result))
    ELSE LET elem == deserializeNestedObject(array[i + 1], ctor, IndexedPath(fieldPath, i))
         IN  IF ~elem.ok THEN elem
             ELSE ObjectArrayElements(array, ctor, fieldPath, i + 1, Append(result, elem.v))

deserializeObjectArray(value, ctor, fieldPath) ==
    LET array == validateArray(value, fieldPath)
    IN  IF ~array.ok THEN array
        ELSE ObjectArrayElements(array.v.v, ctor, fieldPath, 0, <<>>)

(***************************************************************************)
(* The JSON entry points.                                                  *)
(***************************************************************************)
\* toString(value)
JsonToString(value) ==
    LET output == JsonSerializeInstance(value, <<>>)
    IN  IF ~output.ok THEN output ELSE Ok(JSONstringify(JsonGetResult(output.v)))

\* fromString(json, ctor)
JsonFromString(json, ctor) ==
    LET data == JSONparse(json)
    IN  IF ~data.ok THEN data ELSE Deserialize(ctor, data.v)

(***************************************************************************)
(* SpecValidate: the array validators applied to bounded inputs.           *)
(***************************************************************************)
S_a == <<"a">>

\* Elements an untyped array can hold.
ElemPool == {Str(S_a), Num(1), NaN, Bool(TRUE), Null, Undef, Obj(<<>>), Arr(<<>>)}

RECURSIVE SeqsUpTo(_, _)
SeqsUpTo(S, n) ==
    IF n = 0 THEN {<<>>}
    ELSE LET shorter == SeqsUpTo(S, n - 1)
         IN  shorter \cup {Append(s, x) : s \in {t \in shorter : Len(t) = n - 1}, x \in S}

ValidateInputs == {Arr(s) : s \in SeqsUpTo(ElemPool, MaxArr)} \cup (ElemPool \ {Arr(<<>>)})

FieldPaths == {S_a, S_tags}

NoCall == "none"

\* The inputs are drawn once; each validator is then applied to them.
InitValidate ==
    /\ input \in [value : ValidateInputs, path : FieldPaths]
    /\ call = NoCall
    /\ text = Ok(<<>>)
    /\ ret = Ok(Undef)
    /\ obj = Undef

CallValidateStringArray ==
    /\ call = NoCall
    /\ call' = "validateStringArray"
    /\ ret' = validateStringArray(input.value, input.path)
    /\ UNCHANGED <<input, text, obj>>

CallValidateNumberArray ==
    /\ call = NoCall
    /\ call' = "validateNumberArray"
    /\ ret' = validateNumberArray(input.value, input.path)
    /\ UNCHANGED <<input, text, obj>>

CallValidateBooleanArray ==
    /\ call = NoCall
    /\ call' = "validateBooleanArray"
    /\ ret' = validateBooleanArray(input.value, input.path)
    /\ UNCHANGED <<input, text, obj>>

CallValidateObjectArray ==
    /\ call = NoCall
    /\ call' = "validateObjectArray"
    /\ ret' = validateObjectArray(input.value, input.path)
    /\ UNCHANGED <<input, text, obj>>

NextValidate ==
    \/ CallValidateStringArray
    \/ CallValidateNumberArray
    \/ CallValidateBooleanArray
    \/ CallValidateObjectArray

SpecValidate == InitValidate /\ [][NextValidate]_vars

(***************************************************************************)
(* Spec: a value of the class under test is rendered by toString and the   *)
(* text is read back by fromString.                                        *)
(***************************************************************************)
S_p == <<"p">>
S_q == <<"q">>
S_n == <<"n">>

\* Arrays of up to MaxArr copies of x, and the same with bad as last element.
RECURSIVE Repeat(_, _)
Repeat(x, n) == IF n = 0 THEN <<>> ELSE Append(Repeat(x, n - 1), x)

ArraysOf(x, bad) ==
    {Arr(Repeat(x, n)) : n \in 0..MaxArr}
        \cup {Arr(Append(Repeat(x, n), b)) : n \in 0..(MaxArr - 1), b \in bad}

UserOf(age) ==
    Instance("User", <<<<S_name, Str(S_a)>>, <<S_email, Str(S_n)>>,
                       <<S_password, Str(S_p)>>>> \o age)

Users == {UserOf(<<>>), UserOf(<<<<S_age, Num(1)>>>>), UserOf(<<<<S_age, NaN>>>>)}

\* The values a property of the given declared type can hold.
ValuesOf(type) ==
    CASE type = TypeStr("string") -> {Str(S_a), Str(<<>>)}
      [] type = TypeStr("number") -> {Num(1), NaN}
      [] type = TypeStr("boolean") -> {Bool(TRUE), Bool(FALSE)}
      [] type = TypeStr("Date") -> {DateOf(1), InvalidDate}
      [] type = ArrayOf("string") -> ArraysOf(Str(S_a), {})
      [] type = ArrayOf("number") -> ArraysOf(Num(1), {NaN})
      [] type = ArrayOf("boolean") -> ArraysOf(Bool(TRUE), {})
      [] type = TypeStr("User") -> Users

RoundTripTypes ==
    {TypeStr("string"), TypeStr("number"), TypeStr("boolean"), TypeStr("Date"),
     ArrayOf("string"), ArrayOf("number"), ArrayOf("boolean"), TypeStr("User")}

\* The fields a class can declare under the property name prop.
FieldsNamed(prop, names) ==
    {[propertyName |-> prop, type |-> type,
      options |-> [NoOptions EXCEPT !.name = name],
      isOptional |-> opt, isIgnored |-> ign] :
        type \in RoundTripTypes, name \in names, opt \in BOOLEAN, ign \in BOOLEAN}

\* The classes under test: no field, one field p, or the fields p and q.
RoundTripClasses ==
    {<<>>}
        \cup {<<f>> : f \in FieldsNamed(S_p, {Undef, Str(S_n)})}
        \cup {<<f, g>> : f \in FieldsNamed(S_p, {Undef, Str(S_n), Str(S_q)}),
                         g \in {h \in FieldsNamed(S_q, {Undef, Str(S_n)}) : ~h.isOptional}}

\* The property lists of the instances of a class: every field holds a value
\* of its type, an optional field may be unset.
RECURSIVE PropsOf(_)
PropsOf(fields) ==
    IF fields = <<>> THEN {<<>>}
    ELSE LET f == Head(fields)
         IN  {<<<<f.propertyName, x>>>> \o rest :
                    x \in ValuesOf(f.type), rest \in PropsOf(Tail(fields))}
                \cup (IF f.isOptional THEN PropsOf(Tail(fields)) ELSE {})

Init ==
    /\ \E cls \in RoundTripClasses :
          input \in {[cls |-> cls, value |-> Instance("T", props)] : props \in PropsOf(cls)}
    /\ call = NoCall
    /\ text = Ok(<<>>)
    /\ ret = Ok(Undef)
    /\ obj = Undef

CallToString ==
    /\ call = NoCall
    /\ call' = "toString"
    /\ text' = JsonToString(input.value)
    /\ UNCHANGED <<input, ret, obj>>

CallFromString ==
    /\ call = "toString"
    /\ text.ok
    /\ call' = "fromString"
    /\ ret' = JsonFromString(text.v, "T")
    /\ UNCHANGED <<input, text, obj>>

\* toString of the instance fromString returned; obj takes the second text.
CallToStringAgain ==
    /\ call = "fromString"
    /\ ret.ok
    /\ call' = "toStringAgain"
    /\ obj' = JsonToString(ret.v)
    /\ UNCHANGED <<input, text, ret>>

Next == CallToString \/ CallFromString \/ CallToStringAgain

Spec == Init /\ [][Next]_vars

(***************************************************************************)
(* Equality of two instances on the declared, non-skipped fields of their  *)
(* class; a struct-typed field is compared in the same way.                *)
(***************************************************************************)
RECURSIVE EqualDeclared(_, _, _)

FieldEqual(type, x, y) ==
    IF ~type.arr /\ isUserDefinedType(type) /\ x.k = "instance" /\ y.k = "instance"
    THEN EqualDeclared(type.base, x, y)
    ELSE IF type.arr /\ isUserDefinedType(TypeStr(type.base)) /\ x.k = "array" /\ y.k = "array"
    THEN /\ Len(x.v) = Len(y.v)
         /\ \A i \in 1..Len(x.v) : EqualDeclared(type.base, x.v[i], y.v[i])
    ELSE x.k = y.k /\ x = y

EqualDeclared(cls, a, b) ==
    /\ a.k = "instance" /\ b.k = "instance"
    /\ a.v.cls = cls /\ b.v.cls = cls
    /\ \A i \in 1..Len(ClassFields(cls)) :
          LET f == ClassFields(cls)[i]
          IN  f.isIgnored \/ FieldEqual(f.type, GetProp(a.v.props, f.propertyName),
                                                GetProp(b.v.props, f.propertyName))

\* No NaN and no invalid Date anywhere in a value.
RECURSIVE Representable(_)
Representable(x) ==
    CASE x.k \in {"nan", "invalidDate"} -> FALSE
      [] x.k = "array" -> \A i \in 1..Len(x.v) : Representable(x.v[i])
      [] x.k = "object" -> \A i \in 1..Len(x.v) : Representable(x.v[i][2])
      [] x.k = "instance" -> \A i \in 1..Len(x.v.props) : Representable(x.v.props[i][2])
      [] OTHER -> TRUE

\* The value of every non-skipped field is representable.
RepresentableFields(cls, self) ==
    \A i \in 1..Len(ClassFields(cls)) :
        LET f == ClassFields(cls)[i]
        IN  f.isIgnored \/ Representable(GetProp(self.v.props, f.propertyName))

\* The non-skipped fields of a class have pairwise distinct output names.
DistinctOutputNames(fields) ==
    \A i, j \in 1..Len(fields) :
        (i # j /\ ~fields[i].isIgnored /\ ~fields[j].isIgnored)
            => SerializedName(fields[i]) # SerializedName(fields[j])

RoundTripped ==
    /\ (call = "toString" => text.ok)
    /\ (call = "fromString" => ret.ok /\ EqualDeclared("T", ret.v, input.value))

UserDocOk == Obj(<<<<S_name, Str(S_a)>>, <<S_email_address, Str(S_n)>>>>)
UserDocBad == Obj(<<<<S_name, Num(1)>>, <<S_email_address, Str(S_n)>>>>)

RawValues ==
    {Str(S_a), Str(ToISOString(DateOf(1))), Num(1), NaN, Bool(TRUE), Null, Undef,
     Obj(<<>>), UserDocOk, UserDocBad, Arr(<<UserDocOk, UserDocBad>>), Arr(<<UserDocOk>>)}
        \cup ArraysOf(Str(S_a), {Num(1)})

DeserTypes ==
    {TypeStr("string"), TypeStr("number"), TypeStr("boolean"), TypeStr("Date"),
     ArrayOf("string"), ArrayOf("number"), TypeStr("User"), ArrayOf("User")}

DeserFieldsP ==
    {[propertyName |-> S_p, type |-> type,
      options |-> [NoOptions EXCEPT !.name = name, !.transform = transform],
      isOptional |-> opt, isIgnored |-> FALSE] :
        type \in DeserTypes, name \in {Undef, Str(S_n)}, transform \in BOOLEAN,
        opt \in BOOLEAN}

DeserFieldsQ ==
    {[Field(S_q, type) EXCEPT !.isOptional = opt] :
        type \in {TypeStr("number"), TypeStr("string")}, opt \in BOOLEAN}

DeserClasses ==
    {<<f>> : f \in DeserFieldsP} \cup {<<f, g>> : f \in DeserFieldsP, g \in DeserFieldsQ}

\* Documents: at most one entry under p or n and at most one under q, in
\* either order.
EntriesP == {<<key, x>> : key \in {S_p, S_n}, x \in RawValues}
EntriesQ == {<<S_q, x>> : x \in {Num(1), Str(S_a), Null}}

DeserDocs ==
    {Obj(<<>>)} \cup {Obj(<<e>>) : e \in EntriesP \cup EntriesQ}
        \cup {Obj(<<e, f>>) : e \in EntriesP, f \in EntriesQ}
        \cup {Obj(<<f, e>>) : e \in EntriesP, f \in EntriesQ}

\* Values JSON text can carry as they are.
RECURSIVE IsJsonValue(_)
IsJsonValue(x) ==
    CASE x.k \in {"null", "boolean", "number", "string"} -> TRUE
      [] x.k = "array" -> \A i \in 1..Len(x.v) : IsJsonValue(x.v[i])
      [] x.k = "object" -> \A i \in 1..Len(x.v) : IsJsonValue(x.v[i][2])
      [] OTHER -> FALSE

InitDeser ==
    /\ input \in [cls : DeserClasses, data : DeserDocs]
    /\ call = NoCall
    /\ text = Ok(<<>>)
    /\ ret = Ok(Undef)
    /\ obj = Undef

\* deserialize(T, new JsonDeserializer(data))
CallDeserialize ==
    /\ call = NoCall
    /\ call' = "deserialize"
    /\ ret' = Deserialize("T", input.data)
    /\ UNCHANGED <<input, text, obj>>

\* fromString(json, T), json being the text of the document
CallFromStringDoc ==
    /\ call = NoCall
    /\ IsJsonValue(input.data)
    /\ call' = "fromString"
    /\ text' = Ok(JSONstringify(input.data))
    /\ ret' = JsonFromString(JSONstringify(input.data), "T")
    /\ UNCHANGED <<input, obj>>

NextDeser == CallDeserialize \/ CallFromStringDoc

SpecDeser == InitDeser /\ [][NextDeser]_vars

(***************************************************************************)
(* What the claims about the struct deserializer speak of.                 *)
(***************************************************************************)
\* The entries of the document the deserializer reads.
DocEntries == input.data.v

\* The index of the first non-skipped field written under key, 0 when none is.
FieldOfKey(fields, key) ==
    IF \E i \in 1..Len(fields) : ~fields[i].isIgnored /\ SerializedName(fields[i]) = key
    THEN CHOOSE i \in 1..Len(fields) :
            /\ ~fields[i].isIgnored /\ SerializedName(fields[i]) = key
            /\ \A j \in 1..(i - 1) :
                  fields[j].isIgnored \/ SerializedName(fields[j]) # key
    ELSE 0

\* Entry i is the first entry of the document that belongs to a field.
FirstFieldEntry(i) ==
    /\ FieldOfKey(input.cls, DocEntries[i][1]) # 0
    /\ \A j \in 1..(i - 1) : FieldOfKey(input.cls, DocEntries[j][1]) = 0

\* The kind a declared type asks for, as the error messages name it.
ExpectedKind(type) ==
    CASE type.arr -> "array"
      [] type.base = "string" -> "string"
      [] type.base = "number" -> "number"
      [] type.base = "boolean" -> "boolean"
      [] type.base = "Date" -> "Date or date string"
      [] OTHER -> "object"

\* x is not of the kind the declared type asks for.
WrongKind(type, x) ==
    CASE type.arr -> x.k # "array"
      [] type.base = "string" -> x.k # "string"
      [] type.base = "number" -> x.k \notin {"number", "nan"}
      [] type.base = "boolean" -> x.k # "boolean"
      [] type.base = "Date" -> x.k \notin {"string", "date", "invalidDate"}
      [] OTHER -> x.k \notin {"object", "instance", "date", "invalidDate"}

\* An absent value: null or undefined.
Absent(x) == x.k \in {"null", "undefined"}

Deserialized == call \in {"deserialize", "fromString"}

\* C2: when an entry of the document belongs to a validated field and holds a
\* value of the wrong kind (for an optional field: a present value of the wrong
\* kind), deserialization raises a ValidationError and returns no instance;
\* when that entry is the first the deserializer validates, the error names the
\* field's path, the expected kind and the actual kind.
C2_FailFastMessage ==
    Deserialized =>
        \A i \in 1..Len(DocEntries) :
            LET x == DocEntries[i][2]
                c == FieldOfKey(input.cls, DocEntries[i][1])
                f == input.cls[c]
            IN  (/\ c # 0
                 /\ ~f.options.transform
                 /\ WrongKind(f.type, x)
                 /\ ~(f.isOptional /\ Absent(x)))
                    => /\ ~ret.ok
                       /\ ret.v.name = "ValidationError"
                       /\ FirstFieldEntry(i) =>
                            ret.v = ValidationError(f.propertyName, ExpectedKind(f.type),
                                                    TypeOf(x))

\* A renamed string field read a number from JSON text.
C2_Witness ==
    /\ call = "fromString"
    /\ input.cls[1].type = TypeStr("string")
    /\ input.cls[1].options.name = Str(S_n)
    /\ ~input.cls[1].options.transform
    /\ Len(DocEntries) = 2
    /\ DocEntries[1] = <<S_n, Num(1)>>
    /\ ~ret.ok
    /\ ret.v = ValidationError(S_p, "string", "number")

(***************************************************************************)
(* What the claim about the array validators speaks of.                    *)
(***************************************************************************)
ArrayValidators ==
    {"validateStringArray", "validateNumberArray", "validateBooleanArray",
     "validateObjectArray"}

\* x is an element of the kind the validator fn asks for (NaN is no number).
ElementOfKind(fn, x) ==
    CASE fn = "validateStringArray" -> x.k = "string"
      [] fn = "validateNumberArray" -> x.k = "number"
      [] fn = "validateBooleanArray" -> x.k = "boolean"
      [] OTHER -> x.k \in {"object", "instance", "date", "invalidDate"}

\* The 1-based positions of the elements of the wrong kind.
WrongPositions(fn, elems) == {i \in 1..Len(elems) : ~ElementOfKind(fn, elems[i])}

SmallestOf(S) == CHOOSE i \in S : \A j \in S : i <= j

\* The text fieldPath[i] for a one-digit 0-based index i.
PathAt(fieldPath, i) ==
    fieldPath \o <<"[", <<"0", "1", "2", "3", "4", "5", "6", "7", "8", "9">>[i + 1], "]">>

\* C3: each array validator, given a non-array, throws a ValidationError for
\* the bare field path; given an array with an element of the wrong kind, throws
\* a ValidationError whose path is fieldPath[i] for the smallest 0-based index i
\* of such an element; given an all-valid array, returns that array unchanged.
C3_ArrayElementPath ==
    call \in ArrayValidators =>
        IF input.value.k # "array"
        THEN ret = Throw(ValidationError(input.path, "array", TypeOf(input.value)))
        ELSE IF WrongPositions(call, input.value.v) # {}
        THEN /\ ~ret.ok
             /\ ret.v.name = "ValidationError"
             /\ ret.v.path = PathAt(input.path, SmallestOf(WrongPositions(call, input.value.v)) - 1)
        ELSE ret = Ok(input.value)

\* tags: ["a", 1] checked as a string array fails at tags[1].
C3_Witness ==
    /\ call = "validateStringArray"
    /\ input.path = S_tags
    /\ input.value = Arr(<<Str(S_a), Num(1)>>)
    /\ ret = Throw(ValidationError(<<"t", "a", "g", "s", "[", "1", "]">>, "string", "number"))

HasPrefix(path, prefix) ==
    Len(path) >= Len(prefix) /\ SubSeq(path, 1, Len(prefix)) = prefix

\* C4: when the first validated entry belongs to a struct-typed field whose
\* document holds a field of the wrong kind, or to a struct-array field whose
\* element 1 does, the ValidationError's path starts with the enclosing field
\* (and index): p... for the struct, p[1]... for the array element.
C4_NestedPath ==
    Deserialized =>
        \A i \in 1..Len(DocEntries) :
            LET x == DocEntries[i][2]
                c == FieldOfKey(input.cls, DocEntries[i][1])
                f == input.cls[c]
            IN  (c # 0 /\ ~f.options.transform /\ FirstFieldEntry(i)) =>
                    /\ (f.type = TypeStr("User") /\ x = UserDocBad) =>
                          (~ret.ok /\ HasPrefix(ret.v.path, f.propertyName))
                    /\ (f.type = ArrayOf("User") /\ x = Arr(<<UserDocOk, UserDocBad>>)) =>
                          (~ret.ok /\ HasPrefix(ret.v.path, PathAt(f.propertyName, 1)))

\* The document holds an entry for the field.
KeyPresent(f) == \E i \in 1..Len(DocEntries) : DocEntries[i][1] = SerializedName(f)

\* The document holds null for the field.
HoldsNull(f) ==
    \E i \in 1..Len(DocEntries) :
        DocEntries[i][1] = SerializedName(f) /\ DocEntries[i][2] = Null

\* The outcome leaves the field alone: it is unset in a returned instance, and an
\* error, if any, is not about it.
LeftUnset(f) ==
    IF ret.ok THEN ~HasProp(ret.v.v.props, f.propertyName)
    ELSE ~(ret.v.name = "ValidationError" /\ ret.v.path = f.propertyName)

\* C8: for every optional validated field, a raw null or an absent key leaves the
\* field unset and raises no error for it, and a present value of the wrong
\* kind raises a ValidationError.
C8_OptionDeserialization ==
    Deserialized =>
        \A c \in 1..Len(input.cls) :
            LET f == input.cls[c]
            IN  (f.isOptional /\ ~f.options.transform /\ FieldOfKey(input.cls, SerializedName(f)) = c) =>
                    /\ (~KeyPresent(f) \/ HoldsNull(f)) => LeftUnset(f)
                    /\ \A i \in 1..Len(DocEntries) :
                          (/\ DocEntries[i][1] = SerializedName(f)
                           /\ ~Absent(DocEntries[i][2])
                           /\ WrongKind(f.type, DocEntries[i][2]))
                              => (~ret.ok /\ ret.v.name = "ValidationError")

(***************************************************************************)
(* The parser.  A property declaration is                                  *)
(*   [name, questionToken, type, modifiers]                                *)
(* where type is a type node [k, v] (k the syntax kind, v the type name of *)
(* a type reference), and modifiers is the sequence of its decorators      *)
(* [name, args]: args is the object literal the decorator is called with,  *)
(* a sequence of <<key, initializer>> property assignments (<<>> when the  *)
(* decorator is called with none).  An initializer is a node [k, v].       *)
(***************************************************************************)
Node(kind, payload) == [k |-> kind, v |-> payload]

getTypeString(typeNode) ==
    CASE typeNode.k = "none" -> TypeStr("unknown")
      [] typeNode.k = "TypeReference" -> TypeStr(typeNode.v)
      [] typeNode.k = "StringKeyword" -> TypeStr("string")
      [] typeNode.k = "NumberKeyword" -> TypeStr("number")
      [] typeNode.k = "BooleanKeyword" -> TypeStr("boolean")
      [] typeNode.k = "AnyKeyword" -> TypeStr("any")
      [] OTHER -> TypeStr("unknown")

getLiteralValue(node) ==
    CASE node.k = "StringLiteral" -> Str(node.v)
      [] node.k = "NumericLiteral" -> Num(node.v)
      [] node.k = "TrueKeyword" -> Bool(TRUE)
      [] node.k = "FalseKeyword" -> Bool(FALSE)
      [] node.k = "NullKeyword" -> Null
      [] OTHER -> Undef

\* result[key] = value for each property assignment, from the i-th on.
RECURSIVE parseObjectLiteral(_, _, _)
parseObjectLiteral(properties, i, result) ==
    IF i > Len(properties) THEN result
    ELSE parseObjectLiteral(properties, i + 1,
            [result EXCEPT ![properties[i][1]] = getLiteralValue(properties[i][2])])

\* The position of the first decorator of that name, 0 for null.
findDecoratorByName(modifiers, name) ==
    IF \E i \in 1..Len(modifiers) : modifiers[i].name = name
    THEN CHOOSE i \in 1..Len(modifiers) :
            /\ modifiers[i].name = name
            /\ \A j \in 1..(i - 1) : modifiers[j].name # name
    ELSE 0

parseFieldOptions(decorator) == parseObjectLiteral(decorator.args, 1, NoOptions)

parseCustomOptions(decorator) == [NoOptions EXCEPT !.transform = TRUE]

parseField(propertyNode) ==
    LET fieldDecorator == findDecoratorByName(propertyNode.modifiers, "Field")
        ignoreDecorator == findDecoratorByName(propertyNode.modifiers, "Ignore")
        customDecorator == findDecoratorByName(propertyNode.modifiers, "Custom")
    IN  [propertyName |-> propertyNode.name,
         type |-> getTypeString(propertyNode.type),
         options |-> IF ignoreDecorator # 0 THEN NoOptions
                     ELSE IF fieldDecorator # 0
                     THEN parseFieldOptions(propertyNode.modifiers[fieldDecorator])
                     ELSE IF customDecorator # 0
                     THEN parseCustomOptions(propertyNode.modifiers[customDecorator])
                     ELSE NoOptions,
         isOptional |-> propertyNode.questionToken,
         isIgnored |-> ignoreDecorator # 0]

parseClassFields(members) == [i \in 1..Len(members) |-> parseField(members[i])]

(***************************************************************************)
(* SpecGen: a class declaration is parsed, the methods generated from the  *)
(* parsed fields are then run: [SERIALIZE] through toString on an instance *)
(* that holds every declared property, [DESERIALIZE] on a raw document.    *)
(***************************************************************************)
Decorator(name, args) == [name |-> name, args |-> args]

\* The object literals a @Field decorator is called with.
NameAssignments(names) ==
    {<<>>} \cup {<<<<"name", Node("StringLiteral", n)>>>> : n \in names}

FlagAssignments(key) == {<<>>, <<<<key, Node("TrueKeyword", 0)>>>>}

FieldLiterals(names) ==
    {a \o b \o c \o d :
        a \in NameAssignments(names), b \in FlagAssignments("skip"),
        c \in FlagAssignments("skipSerializing"), d \in FlagAssignments("skipDeserializing")}

\* The decorator lists of the property p and of the property q.
ModifiersP ==
    {<<>>, <<Decorator("Ignore", <<>>)>>, <<Decorator("Custom", <<>>)>>,
     <<Decorator("Field", <<>>), Decorator("Ignore", <<>>)>>}
        \cup {<<Decorator("Field", args)>> : args \in FieldLiterals({<<>>, S_n, S_p, S_q})}

ModifiersQ ==
    {<<>>, <<Decorator("Ignore", <<>>)>>, <<Decorator("Custom", <<>>)>>}
        \cup {<<Decorator("Field", args)>> :
                args \in NameAssignments({S_n, S_p}) \cup FlagAssignments("skipDeserializing")}

\* The class declarations: property p alone or the properties p and q, all of
\* one keyword type.
Declarations ==
    UNION { {<<[name |-> S_p, questionToken |-> opt, type |-> type, modifiers |-> mp]>>
                : mp \in ModifiersP, opt \in BOOLEAN}
            \cup {<<[name |-> S_p, questionToken |-> opt, type |-> type, modifiers |-> mp],
                    [name |-> S_q, questionToken |-> FALSE, type |-> type, modifiers |-> mq]>>
                : mp \in ModifiersP, mq \in ModifiersQ, opt \in BOOLEAN}
          : type \in {Node("StringKeyword", ""), Node("NumberKeyword", "")} }

\* The i-th value of a keyword type.
ValueNo(typeNode, i) ==
    IF typeNode.k = "StringKeyword" THEN Str(<<"v", Digit(i)>>) ELSE Num(i)

\* The value the instance holds in property number i of the declaration, and
\* the value a document holds under a key.
HeldValue(decl, i) == ValueNo(decl[i].type, i)

RawValue(decl, key) ==
    ValueNo(decl[1].type, CASE key = S_p -> 3 [] key = S_q -> 4 [] OTHER -> 5)

InstanceOf(decl) ==
    Instance("T", [i \in 1..Len(decl) |-> <<decl[i].name, HeldValue(decl, i)>>])

\* The documents: any of the keys p, q and n, in that order.
DocumentsOf(decl) ==
    {Obj(a \o b \o c) :
        a \in {<<>>, <<<<S_p, RawValue(decl, S_p)>>>>},
        b \in {<<>>, <<<<S_q, RawValue(decl, S_q)>>>>},
        c \in {<<>>, <<<<S_n, RawValue(decl, S_n)>>>>}}

InitGen ==
    /\ \E decl \in Declarations :
          input \in {[decl |-> decl, cls |-> <<>>, value |-> InstanceOf(decl), data |-> doc] :
                        doc \in DocumentsOf(decl)}
    /\ call = NoCall
    /\ text = Ok(<<>>)
    /\ ret = Ok(Undef)
    /\ obj = Undef

\* parseSourceFile's parseClassFields: from now on class T has the parsed fields.
CallParse ==
    /\ call = NoCall
    /\ call' = "parse"
    /\ input' = [input EXCEPT !.cls = parseClassFields(input.decl)]
    /\ UNCHANGED <<text, ret, obj>>

\* toString(value) with the [SERIALIZE] the generator wrote for T
GenToString ==
    /\ call = "parse"
    /\ call' = "toString"
    /\ text' = JsonToString(input.value)
    /\ UNCHANGED <<input, ret, obj>>

\* deserialize(T, new JsonDeserializer(data)) with the generated [DESERIALIZE]
GenDeserialize ==
    /\ call = "parse"
    /\ call' = "deserialize"
    /\ ret' = Deserialize("T", input.data)
    /\ UNCHANGED <<input, text, obj>>

NextGen == CallParse \/ GenToString \/ GenDeserialize

SpecGen == InitGen /\ [][NextGen]_vars

(***************************************************************************)
(* What the claims about the declared field options speak of, read off the *)
(* declaration itself.                                                     *)
(***************************************************************************)
Decorated(d, name) == \E i \in 1..Len(d.modifiers) : d.modifiers[i].name = name

\* The @Field decorator's literal assigns node to key.
Assigns(d, key, node) ==
    \E i \in 1..Len(d.modifiers) :
        /\ d.modifiers[i].name = "Field"
        /\ \E j \in 1..Len(d.modifiers[i].args) : d.modifiers[i].args[j] = <<key, node>>

MarkedTrue(d, key) == Assigns(d, key, Node("TrueKeyword", 0))

SkipOnSerialize(d) ==
    Decorated(d, "Ignore") \/ MarkedTrue(d, "skip") \/ MarkedTrue(d, "skipSerializing")

SkipOnDeserialize(d) ==
    Decorated(d, "Ignore") \/ MarkedTrue(d, "skip") \/ MarkedTrue(d, "skipDeserializing")

\* The rendered output holds the value of property number i.
Rendered(i) ==
    \E t \in 1..Len(text.v) : <<text.v[t]>> = JSONstringify(HeldValue(input.decl, i))

\* The rendered output holds the value of property number i under key.
RenderedUnder(i, key) ==
    \E t \in 1..(Len(text.v) - 2) :
        SubSeq(text.v, t, t + 2)
            = <<StrTok(key), Punct(":")>> \o JSONstringify(HeldValue(input.decl, i))

\* C5: a property marked skip-on-serialize (skip, skipSerializing, @Ignore) is
\* absent from the rendered output, and a property marked skip-on-deserialize
\* (skip, skipDeserializing, @Ignore) is not assigned by the generated
\* deserialize method, whatever the document holds.
C5_SkipSemantics ==
    \A i \in 1..Len(input.decl) :
        /\ (call = "toString" /\ SkipOnSerialize(input.decl[i]))
              => (text.ok /\ ~Rendered(i))
        /\ (call = "deserialize" /\ SkipOnDeserialize(input.decl[i]))
              => (ret.ok /\ ~HasProp(ret.v.v.props, input.decl[i].name))

\* Property number i is declared with the output name N and is not ignored.
DeclaredName(i, N) ==
    /\ ~Decorated(input.decl[i], "Ignore")
    /\ Assigns(input.decl[i], "name", Node("StringLiteral", N))

\* The document's value under key, and whether it has one.
DocHas(key) == HasProp(input.data.v, key)

\* Serialization writes property i under N; deserialization assigns it the
\* document's value under N, and leaves it unset when the document has no N.
SymmetricUnder(i, N) ==
    /\ call = "toString" => (text.ok /\ RenderedUnder(i, N))
    /\ call = "deserialize" =>
          /\ ret.ok
          /\ IF DocHas(N)
             THEN /\ HasProp(ret.v.v.props, input.decl[i].name)
                  /\ GetProp(ret.v.v.props, input.decl[i].name) = GetProp(input.data.v, N)
             ELSE ~HasProp(ret.v.v.props, input.decl[i].name)

OutputNames == {<<>>, S_n, S_p, S_q}

\* C6 as stated: every field declared with an output name N is written under
\* N and read back from N only.
C6_RenameSymmetry ==
    \A i \in 1..Len(input.decl) : \A N \in OutputNames :
        DeclaredName(i, N) => SymmetricUnder(i, N)

\* The key property number j is written under, going by the declaration: the
\* declared name unless that is empty or missing.
KeyOf(j) ==
    IF \E N \in OutputNames \ {<<>>} : DeclaredName(j, N)
    THEN CHOOSE N \in OutputNames \ {<<>>} : DeclaredName(j, N)
    ELSE input.decl[j].name

\* C6, amended: every field declared with a non-empty output name N that no
\* other non-ignored field of the class is written under, is written under N
\* and read back from N only.
C6_RenameSymmetryDistinct ==
    \A i \in 1..Len(input.decl) : \A N \in OutputNames \ {<<>>} :
        (/\ DeclaredName(i, N)
         /\ \A j \in 1..Len(input.decl) :
               (j # i /\ ~Decorated(input.decl[j], "Ignore")) => KeyOf(j) # N)
            => SymmetricUnder(i, N)

\* p is declared as n next to an undecorated q; the document holds p and n,
\* and the instance got n's value.
C6_Witness ==
    /\ call = "deserialize"
    /\ Len(input.decl) = 2
    /\ DeclaredName(1, S_n)
    /\ input.decl[2].modifiers = <<>>
    /\ DocHas(S_p) /\ DocHas(S_n)
    /\ ret.ok
    /\ GetProp(ret.v.v.props, S_p) = RawValue(input.decl, S_n)

(***************************************************************************)
(* Strings, as sequences of characters, and the String methods the YAML    *)
(* backend uses.  Positions are 1-based here; IndexOf is 0-based as in the *)
(* source, -1 when there is no occurrence.                                 *)
(***************************************************************************)
OccursAt(s, sub, i) ==
    i >= 1 /\ i + Len(sub) - 1 <= Len(s) /\ SubSeq(s, i, i + Len(sub) - 1) = sub

Includes(s, sub) == \E i \in 1..Len(s) : OccursAt(s, sub, i)

StartsWith(s, sub) == OccursAt(s, sub, 1)

EndsWith(s, sub) == OccursAt(s, sub, Len(s) - Len(sub) + 1)

IndexOf(s, sub) ==
    IF Includes(s, sub)
    THEN (CHOOSE i \in 1..Len(s) :
            OccursAt(s, sub, i) /\ \A j \in 1..(i - 1) : ~OccursAt(s, sub, j)) - 1
    ELSE -1

WhiteSpace == {" ", "\t", "\n"}

RECURSIVE TrimStart(_)
TrimStart(s) ==
    IF s # <<>> /\ Head(s) \in WhiteSpace THEN TrimStart(Tail(s)) ELSE s

RECURSIVE TrimEnd(_)
TrimEnd(s) ==
    IF s # <<>> /\ s[Len(s)] \in WhiteSpace THEN TrimEnd(SubSeq(s, 1, Len(s) - 1)) ELSE s

Trim(s) == TrimStart(TrimEnd(s))

\* s.split(sep) for a one-character separator: cur is the piece being read.
RECURSIVE SplitFrom(_, _, _, _)
SplitFrom(s, sep, i, cur) ==
    IF i > Len(s) THEN <<cur>>
    ELSE IF s[i] = sep THEN <<cur>> \o SplitFrom(s, sep, i + 1, <<>>)
    ELSE SplitFrom(s, sep, i + 1, Append(cur, s[i]))

Split(s, sep) == SplitFrom(s, sep, 1, <<>>)

\* pieces.join(sep)
RECURSIVE Join(_, _)
Join(pieces, sep) ==
    IF pieces = <<>> THEN <<>>
    ELSE IF Len(pieces) = 1 THEN pieces[1]
    ELSE pieces[1] \o sep \o Join(Tail(pieces), sep)

\* s.replace(/"/g, '\\"')
RECURSIVE EscapeQuotes(_)
EscapeQuotes(s) ==
    IF s = <<>> THEN <<>>
    ELSE (IF Head(s) = "\"" THEN <<"\\", "\"">> ELSE <<Head(s)>>) \o EscapeQuotes(Tail(s))

\* s.replace(/\\"/g, '"')
RECURSIVE UnescapeQuotes(_)
UnescapeQuotes(s) ==
    IF s = <<>> THEN <<>>
    ELSE IF StartsWith(s, <<"\\", "\"">>) THEN <<"\"">> \o UnescapeQuotes(SubSeq(s, 3, Len(s)))
    ELSE <<Head(s)>> \o UnescapeQuotes(Tail(s))

\* Number.prototype.toString of an integer
NumToStr(n) == IF n < 0 THEN <<"-">> \o IntToStr(0 - n) ELSE IntToStr(n)

CharsOf(word) ==
    CASE word = "null" -> <<"n", "u", "l", "l">>
      [] word = "true" -> <<"t", "r", "u", "e">>
      [] word = "false" -> <<"f", "a", "l", "s", "e">>
      [] word = "undefined" -> <<"u", "n", "d", "e", "f", "i", "n", "e", "d">>
      [] word = "NaN" -> <<"N", "a", "N">>
      [] word = "[object Object]" ->
            <<"[", "o", "b", "j", "e", "c", "t", " ", "O", "b", "j", "e", "c", "t", "]">>

\* String(value), which template strings apply as well (no Date is passed).
RECURSIVE JSString(_)
JSString(x) ==
    CASE x.k = "null" -> CharsOf("null")
      [] x.k = "undefined" -> CharsOf("undefined")
      [] x.k = "boolean" -> IF x.v THEN CharsOf("true") ELSE CharsOf("false")
      [] x.k = "number" -> NumToStr(x.v)
      [] x.k = "decimal" -> x.v
      [] x.k = "nan" -> CharsOf("NaN")
      [] x.k = "string" -> x.v
      [] x.k = "array" ->
            Join([i \in 1..Len(x.v) |->
                    IF x.v[i].k \in {"null", "undefined"} THEN <<>> ELSE JSString(x.v[i])],
                 <<",">>)
      [] x.k \in {"object", "instance"} -> CharsOf("[object Object]")

(***************************************************************************)
(* The YAML serializer.  lines is YamlSerializer.lines, each line a        *)
(* string.                                                                 *)
(***************************************************************************)
\* "  ".repeat(indentLevel)
RECURSIVE Indent(_)
Indent(indentLevel) == IF indentLevel = 0 THEN <<>> ELSE <<" ", " ">> \o Indent(indentLevel - 1)

YamlSerializeNull(lines) == Append(lines, CharsOf("null"))

YamlSerializeString(lines, v) ==
    IF \E c \in {"\n", ":", "-", "'", "\""} : Includes(v, <<c>>)
    THEN Append(lines, <<"\"">> \o EscapeQuotes(v) \o <<"\"">>)
    ELSE Append(lines, v)

\* YamlSerializer.getResult
YamlGetResult(lines) == Join(lines, <<"\n">>)

\* YamlStructSerializer.formatSimpleValue
formatSimpleValue(value) ==
    CASE value.k = "null" -> CharsOf("null")
      [] value.k = "boolean" -> IF value.v THEN CharsOf("true") ELSE CharsOf("false")
      [] TypeOf(value) = "number" -> JSString(value)
      [] value.k = "string" ->
            IF \E c \in {"\n", ":", "-"} : Includes(value.v, <<c>>)
            THEN <<"\"">> \o EscapeQuotes(value.v) \o <<"\"">>
            ELSE value.v
      [] OTHER -> JSString(value)

RECURSIVE YamlSerializeInstance(_, _, _)
RECURSIVE YamlSerializeField(_, _, _, _)
RECURSIVE YamlSerializeFields(_, _, _, _, _)

\* YamlStructSerializer.serializeField: the lines after the call.
YamlSerializeField(lines, indentLevel, name, value) ==
    LET indent == Indent(indentLevel)
    IN  IF HasSerialize(value)
        THEN LET nested == YamlSerializeInstance(value, <<>>, indentLevel + 1)
             IN  IF ~nested.ok THEN nested
                 ELSE LET result == Split(YamlGetResult(nested.v), "\n")
                      IN  Ok(Append(lines, indent \o name \o <<":">>)
                                \o [i \in 1..Len(result) |-> indent \o <<" ", " ">> \o result[i]])
        ELSE Ok(Append(lines, indent \o name \o <<":", " ">> \o formatSimpleValue(value)))

\* The serializeField calls of a generated [SERIALIZE], from the i-th on.
YamlSerializeFields(calls, i, self, lines, indentLevel) ==
    IF i > Len(calls) THEN Ok(lines)
    ELSE LET value == EvalFieldExpr(calls[i].expr, self, calls[i].prop)
         IN  IF ~value.ok THEN value
             ELSE LET next == YamlSerializeField(lines, indentLevel, calls[i].key, value.v)
                  IN  IF ~next.ok THEN next
                      ELSE YamlSerializeFields(calls, i + 1, self, next.v, indentLevel)

\* value[SERIALIZE](serializer) on a YamlSerializer with these lines and this
\* indentLevel: serializeStruct, the serializeField calls, end().
YamlSerializeInstance(self, lines, indentLevel) ==
    LET method == generateSerializeMethod(self.v.cls, ClassFields(self.v.cls))
    IN  YamlSerializeFields(method.fieldSerializations, 1, self, lines, indentLevel)

\* YamlSerializer.serializeEnum: the lines after the call.
YamlSerializeEnum(lines, indentLevel, variant, data) ==
    IF data.k = "undefined" THEN Ok(Append(lines, variant))
    ELSE IF HasSerialize(data)
    THEN LET nested == YamlSerializeInstance(data, <<>>, indentLevel + 1)
         IN  IF ~nested.ok THEN nested
             ELSE Ok(Append(lines, variant \o <<":">>)
                        \o [i \in 1..Len(nested.v) |-> <<" ", " ">> \o nested.v[i]])
    ELSE Ok(Append(Append(lines, variant \o <<":">>), <<" ", " ">> \o JSString(data)))

\* YamlOptionSerializer.serializeNone
YamlSerializeNone(lines) == Append(lines, CharsOf("null"))

\* YamlOptionSerializer.serializeSome
YamlSerializeSome(lines, indentLevel, value) ==
    IF HasSerialize(value)
    THEN LET nested == YamlSerializeInstance(value, <<>>, indentLevel)
         IN  IF ~nested.ok THEN nested ELSE Ok(lines \o nested.v)
    ELSE Ok(Append(lines, JSString(value)))

\* toYaml(value)
toYaml(value) ==
    LET lines == YamlSerializeInstance(value, <<>>, 0)
    IN  IF ~lines.ok THEN lines ELSE Ok(YamlGetResult(lines.v))

(***************************************************************************)
(* The JSON serializer's enum and option methods: the output buffer after  *)
(* the call.                                                               *)
(***************************************************************************)
JsonSerializeEnum(output, variant, data) ==
    IF data.k = "undefined" THEN Append(output, Str(variant))
    ELSE Append(output, Obj(<<<<variant, data>>>>))

\* JsonOptionSerializer.serializeNone
JsonSerializeNone(output) == Append(output, Null)

\* JsonOptionSerializer.serializeSome
JsonSerializeSome(output, value) ==
    IF HasSerialize(value)
    THEN LET nested == JsonSerializeInstance(value, <<>>)
         IN  IF ~nested.ok THEN nested ELSE Ok(Append(output, JsonGetResult(nested.v)))
    ELSE Ok(Append(output, value))

(***************************************************************************)
(* YamlParser.  lines are the parser's lines; cur is currentLine, 0-based. *)
(* Each parse method returns the value it read and currentLine after it.   *)
(***************************************************************************)
\* yaml.split("\n").map((line) => line.trimEnd())
YamlLines(yaml) ==
    LET pieces == Split(yaml, "\n") IN [i \in 1..Len(pieces) |-> TrimEnd(pieces[i])]

RECURSIVE getIndent(_)
getIndent(line) == IF line # <<>> /\ Head(line) = " " THEN 1 + getIndent(Tail(line)) ELSE 0

IsDigits(s) == s # <<>> /\ \A i \in 1..Len(s) : \E d \in 0..9 : s[i] = Digit(d)

\* /^-?\d+$/
IsIntegerText(s) == IsDigits(IF StartsWith(s, <<"-">>) THEN Tail(s) ELSE s)

\* /^-?\d+\.\d+$/
IsDecimalText(s) ==
    LET digits == IF StartsWith(s, <<"-">>) THEN Tail(s) ELSE s
        dot == IndexOf(digits, <<".">>)
    IN  /\ dot >= 1
        /\ IsDigits(SubSeq(digits, 1, dot))
        /\ IsDigits(SubSeq(digits, dot + 2, Len(digits)))

\* The number a text of digits denotes.
RECURSIVE DigitsValue(_)
DigitsValue(s) ==
    IF s = <<>> THEN 0
    ELSE 10 * DigitsValue(SubSeq(s, 1, Len(s) - 1))
            + (CHOOSE d \in 0..9 : s[Len(s)] = Digit(d))

\* parseInt(value, 10) of a text that matches /^-?\d+$/
ParseInt(s) == IF StartsWith(s, <<"-">>) THEN 0 - DigitsValue(Tail(s)) ELSE DigitsValue(s)

parseScalar(value) ==
    IF value = CharsOf("null") \/ value = <<"~">> THEN Null
    ELSE IF value = CharsOf("true") THEN Bool(TRUE)
    ELSE IF value = CharsOf("false") THEN Bool(FALSE)
    ELSE IF IsIntegerText(value) THEN Num(ParseInt(value))
    ELSE IF IsDecimalText(value) THEN [k |-> "decimal", v |-> value]
    ELSE IF \/ StartsWith(value, <<"\"">>) /\ EndsWith(value, <<"\"">>)
            \/ StartsWith(value, <<"'">>) /\ EndsWith(value, <<"'">>)
    THEN Str(UnescapeQuotes(SubSeq(value, 2, Len(value) - 1)))
    ELSE Str(value)

RECURSIVE parseValue(_, _, _)
RECURSIVE parseSequence(_, _, _, _)
RECURSIVE parseMap(_, _, _, _)

parseValue(lines, cur, minIndent) ==
    IF cur >= Len(lines) THEN [v |-> Null, cur |-> cur]
    ELSE LET line == lines[cur + 1]
             indent == getIndent(line)
             content == Trim(line)
         IN  IF content = <<>> \/ StartsWith(content, <<"#">>)
             THEN parseValue(lines, cur + 1, minIndent)
             ELSE IF StartsWith(content, <<"-", " ">>)
             THEN parseSequence(lines, cur, indent, <<>>)
             ELSE IF Includes(content, <<":", " ">>)
             THEN parseMap(lines, cur, indent, <<>>)
             ELSE [v |-> parseScalar(content), cur |-> cur + 1]

\* The while loop of parseSequence: sequence holds what was pushed so far.
parseSequence(lines, cur, indent, sequence) ==
    IF cur >= Len(lines) THEN [v |-> Arr(sequence), cur |-> cur]
    ELSE LET line == lines[cur + 1]
             lineIndent == getIndent(line)
             content == Trim(line)
         IN  IF lineIndent < indent \/ (~StartsWith(content, <<"-", " ">>) /\ content # <<>>)
             THEN [v |-> Arr(sequence), cur |-> cur]
             ELSE IF StartsWith(content, <<"-", " ">>)
             THEN LET value == Trim(SubSeq(content, 3, Len(content)))
                  IN  IF value # <<>>
                      THEN parseSequence(lines, cur + 1, indent,
                                         Append(sequence, parseScalar(value)))
                      ELSE LET nested == parseValue(lines, cur + 1, indent + 2)
                           IN  parseSequence(lines, nested.cur, indent,
                                             Append(sequence, nested.v))
             ELSE parseSequence(lines, cur + 1, indent, sequence)

\* The while loop of parseMap: map holds the entries set so far.
parseMap(lines, cur, indent, map) ==
    IF cur >= Len(lines) THEN [v |-> Obj(map), cur |-> cur]
    ELSE LET line == lines[cur + 1]
             lineIndent == getIndent(line)
             content == Trim(line)
         IN  IF lineIndent < indent \/ content = <<>>
             THEN [v |-> Obj(map), cur |-> cur]
             ELSE IF lineIndent = indent /\ Includes(content, <<":", " ">>)
             THEN LET colonIndex == IndexOf(content, <<":", " ">>)
                      key == Trim(SubSeq(content, 1, colonIndex))
                      value == Trim(SubSeq(content, colonIndex + 3, Len(content)))
                  IN  IF value # <<>>
                      THEN parseMap(lines, cur + 1, indent,
                                    SetProp(map, key, parseScalar(value)))
                      ELSE LET nested == parseValue(lines, cur + 1, indent + 2)
                           IN  parseMap(lines, nested.cur, indent,
                                        SetProp(map, key, nested.v))
             ELSE parseMap(lines, cur + 1, indent, map)

\* new YamlParser(yaml).parse()
YamlParse(yaml) == parseValue(YamlLines(yaml), 0, 0).v

(***************************************************************************)
(* EnumAccess.variant of the two backends: [variant, data] as an array.    *)
(***************************************************************************)
InvalidEnumFormat(data) ==
    [name |-> "DeserializationError", path |-> <<>>, expected |-> "enum format",
     got |-> TypeOf(data)]

JsonEnumAccessVariant(data) ==
    IF TypeOf(data) = "string" THEN Ok(Arr(<<data, Undef>>))
    ELSE IF TypeOf(data) = "object" /\ data.k # "null" /\ Len(ObjectEntries(data)) = 1
    THEN Ok(Arr(<<Str(ObjectEntries(data)[1][1]), ObjectEntries(data)[1][2]>>))
    ELSE Throw(InvalidEnumFormat(data))

YamlEnumAccessVariant(data) ==
    IF TypeOf(data) = "string" THEN Ok(Arr(<<data, Undef>>))
    ELSE IF TypeOf(data) = "object" /\ data.k # "null" /\ Len(ObjectEntries(data)) = 1
    THEN Ok(Arr(<<Str(ObjectEntries(data)[1][1]), ObjectEntries(data)[1][2]>>))
    ELSE Throw(InvalidEnumFormat(data))

(***************************************************************************)
(* SpecEnum: an enum value [variant, data] is written with serializeEnum   *)
(* and read back with deserializeEnum in each backend, and                 *)
(* EnumAccess.variant() is applied to raw values of every shape.           *)
(***************************************************************************)
S_Active == <<"A", "c", "t", "i", "v", "e">>
S_Failed == <<"F", "a", "i", "l", "e", "d">>
S_reason == <<"r", "e", "a", "s", "o", "n">>
S_x == <<"x">>

\* The payloads of a variant; Undef is the data-less variant.
EnumData ==
    {Undef, Null, Str(S_x), Num(1), Bool(TRUE), Obj(<<<<S_reason, Str(S_x)>>>>),
     Arr(<<Num(1)>>)}

\* The raw values a deserializer can hold.
RawShapes ==
    {Str(S_Active), Null, Bool(TRUE), Num(1), Obj(<<>>),
     Obj(<<<<S_Failed, Str(S_x)>>>>), Obj(<<<<S_Failed, Obj(<<<<S_reason, Str(S_x)>>>>)>>>>),
     Obj(<<<<S_Failed, Str(S_x)>>, <<S_Active, Null>>>>)}
        \cup ArraysOf(Str(S_x), {})

InitEnum ==
    /\ input \in [variant : {S_Active, S_Failed}, data : EnumData, raw : RawShapes]
    /\ call = NoCall
    /\ text = Ok(<<>>)
    /\ ret = Ok(Undef)
    /\ obj = Undef

\* toString of a value whose [SERIALIZE] calls serializeEnum, then fromString
\* with a [DESERIALIZE] that calls deserializeEnum and asks for variant().
JsonEnumRoundTrip ==
    /\ call = NoCall
    /\ call' = "jsonEnum"
    /\ LET output == JsonSerializeEnum(<<>>, input.variant, input.data)
           json == JSONstringify(JsonGetResult(output))
           data == JSONparse(json)
       IN  /\ text' = Ok(json)
           /\ ret' = IF ~data.ok THEN data ELSE JsonEnumAccessVariant(data.v)
    /\ UNCHANGED <<input, obj>>

\* The same with toYaml and fromYaml.
YamlEnumRoundTrip ==
    /\ call = NoCall
    /\ call' = "yamlEnum"
    /\ LET lines == YamlSerializeEnum(<<>>, 0, input.variant, input.data)
       IN  /\ text' = Ok(YamlGetResult(lines.v))
           /\ ret' = YamlEnumAccessVariant(YamlParse(YamlGetResult(lines.v)))
    /\ UNCHANGED <<input, obj>>

\* new JsonDeserializer(raw).deserializeEnum(...): variant()
JsonVariant ==
    /\ call = NoCall
    /\ call' = "jsonVariant"
    /\ ret' = JsonEnumAccessVariant(input.raw)
    /\ UNCHANGED <<input, text, obj>>

\* new YamlDeserializer(raw).deserializeEnum(...): variant()
YamlVariant ==
    /\ call = NoCall
    /\ call' = "yamlVariant"
    /\ ret' = YamlEnumAccessVariant(input.raw)
    /\ UNCHANGED <<input, text, obj>>

NextEnum == JsonEnumRoundTrip \/ YamlEnumRoundTrip \/ JsonVariant \/ YamlVariant

SpecEnum == InitEnum /\ [][NextEnum]_vars

\* C9: serializeEnum emits the bare variant for a data-less variant and the
\* single-key structure {variant: data} otherwise, and in both backends
\* variant() on the emitted text returns the same variant and the same payload
\* (undefined for the data-less variant).
C9_EnumRoundTrip ==
    /\ call = "jsonEnum" =>
          /\ text.v = IF input.data = Undef THEN <<StrTok(input.variant)>>
                      ELSE <<Punct("{"), StrTok(input.variant), Punct(":")>>
                              \o JSONstringify(input.data) \o <<Punct("}")>>
          /\ ret.ok /\ ret.v = Arr(<<Str(input.variant), input.data>>)
    /\ call = "yamlEnum" =>
          /\ input.data = Undef => text.v = input.variant
          /\ ret.ok /\ ret.v = Arr(<<Str(input.variant), input.data>>)

\* C10: variant() returns [s, undefined] for a string s, [k, v] for a mapping
\* with the single key k, and throws a DeserializationError for every other
\* raw value: null, booleans, numbers, sequences of any length, mappings with
\* no key or with several.
C10_EnumDecoding ==
    call \in {"jsonVariant", "yamlVariant"} =>
        CASE input.raw.k = "string" -> ret = Ok(Arr(<<input.raw, Undef>>))
          [] input.raw.k = "object" /\ Len(input.raw.v) = 1 ->
                ret = Ok(Arr(<<Str(input.raw.v[1][1]), input.raw.v[1][2]>>))
          [] OTHER -> ~ret.ok /\ ret.v.name = "DeserializationError"

(***************************************************************************)
(* SpecOption: an absent optional value is serialized in each backend,     *)
(* through serializeOption(...).serializeNone() and as the unset optional  *)
(* field of an instance of a generated class.                              *)
(***************************************************************************)
\* The classes: p of a primitive type, optional or not, renamed or not; alone
\* or followed by a field q that holds a string or a User.
OptionFieldsP ==
    {[propertyName |-> S_p, type |-> type, options |-> [NoOptions EXCEPT !.name = name],
      isOptional |-> opt, isIgnored |-> FALSE] :
        type \in {TypeStr("string"), TypeStr("number"), TypeStr("boolean")},
        name \in {Undef, Str(S_n)}, opt \in BOOLEAN}

OptionClasses ==
    {<<f>> : f \in OptionFieldsP}
        \cup {<<f, Field(S_q, type)>> :
                f \in OptionFieldsP, type \in {TypeStr("string"), TypeStr("User")}}

InitOption ==
    /\ \E cls \in OptionClasses :
          input \in {[cls |-> cls, value |-> Instance("T", props)] : props \in PropsOf(cls)}
    /\ call = NoCall
    /\ text = Ok(<<>>)
    /\ ret = Ok(Undef)
    /\ obj = Undef

\* toString of a value whose [SERIALIZE] calls serializeOption(x).serializeNone()
JsonNone ==
    /\ call = NoCall
    /\ call' = "jsonNone"
    /\ text' = Ok(JSONstringify(JsonGetResult(JsonSerializeNone(<<>>))))
    /\ UNCHANGED <<input, ret, obj>>

\* toYaml of such a value
YamlNone ==
    /\ call = NoCall
    /\ call' = "yamlNone"
    /\ text' = Ok(YamlGetResult(YamlSerializeNone(<<>>)))
    /\ UNCHANGED <<input, ret, obj>>

\* toString(value), value an instance of the generated class
StructToString ==
    /\ call = NoCall
    /\ call' = "toString"
    /\ text' = JsonToString(input.value)
    /\ UNCHANGED <<input, ret, obj>>

\* toYaml(value)
StructToYaml ==
    /\ call = NoCall
    /\ call' = "toYaml"
    /\ text' = toYaml(input.value)
    /\ UNCHANGED <<input, ret, obj>>

NextOption == JsonNone \/ YamlNone \/ StructToString \/ StructToYaml

SpecOption == InitOption /\ [][NextOption]_vars

\* The optional fields of the class that the instance leaves unset.
UnsetOptionals ==
    {i \in 1..Len(input.cls) :
        /\ input.cls[i].isOptional /\ ~input.cls[i].isIgnored
        /\ ~HasProp(input.value.v.props, input.cls[i].propertyName)}

\* C7: in both backends an absent optional value is rendered as the format's
\* null: serializeNone() gives the text null, and an unset optional field of a
\* generated struct is written as key: null.
C7_OptionSerialization ==
    /\ call = "jsonNone" => text = Ok(<<Lit("null")>>)
    /\ call = "yamlNone" => text = Ok(CharsOf("null"))
    /\ call = "toString" =>
          /\ text.ok
          /\ \A i \in UnsetOptionals :
                \E t \in 1..(Len(text.v) - 2) :
                    SubSeq(text.v, t, t + 2)
                        = <<StrTok(SerializedName(input.cls[i])), Punct(":"), Lit("null")>>
    /\ call = "toYaml" =>
          /\ text.ok
          /\ \A i \in UnsetOptionals :
                \E l \in 1..Len(Split(text.v, "\n")) :
                    Split(text.v, "\n")[l]
                        = SerializedName(input.cls[i]) \o <<":", " ">> \o CharsOf("null")

(***************************************************************************)
(* Visitors.  A visitor is [kind, expecting, visits]: visits is the list   *)
(* of the visit calls it has received, each <<method, argument>>.  The     *)
(* kinds are BaseVisitor (every method throws), PrimitiveVisitor with the  *)
(* identity as handler (the five primitive methods return their argument)  *)
(* and a full implementation of the Visitor interface whose methods        *)
(* return a value naming the call.                                         *)
(***************************************************************************)
Func == [k |-> "function", v |-> 0]

Bytes(b) == [k |-> "bytes", v |-> b]

SeqAccess(array) == [k |-> "SeqAccess", v |-> <<array, 0>>]

MapAccess(object) == [k |-> "MapAccess", v |-> <<ObjectEntries(object), 0>>]

EnumAccess(data) == [k |-> "EnumAccess", v |-> <<data>>]

Visited(method, arg) == [k |-> "visited", v |-> <<method, arg>>]

Visitor(kind) == [kind |-> kind, expecting |-> "thing", visits |-> <<>>]

BaseVisitorFound(method) ==
    CASE method = "visitNull" -> "null"
      [] method = "visitBool" -> "boolean"
      [] method = "visitNumber" -> "number"
      [] method = "visitString" -> "string"
      [] method = "visitBytes" -> "bytes"
      [] method = "visitSeq" -> "sequence"
      [] method = "visitMap" -> "map"
      [] method = "visitEnum" -> "enum"

PrimitiveMethods == {"visitNull", "visitBool", "visitNumber", "visitString", "visitBytes"}

\* visitor.<method>(arg): the call is recorded and the method's body runs.
Visit(visitor, method, arg) ==
    [visitor |-> [visitor EXCEPT !.visits = Append(@, <<method, arg>>)],
     out |-> CASE visitor.kind = "BaseVisitor" ->
                    Throw(DeserializationError(visitor.expecting, BaseVisitorFound(method)))
               [] visitor.kind = "PrimitiveVisitor" ->
                    IF method \in PrimitiveMethods
                    THEN Ok(IF method = "visitNull" THEN Null ELSE arg)
                    ELSE Throw(DeserializationError(visitor.expecting,
                                                    BaseVisitorFound(method)))
               [] OTHER -> Ok(Visited(method, arg))]

\* A deserializer method that throws before it reaches the visitor.
Reject(visitor, error) == [visitor |-> visitor, out |-> Throw(error)]

(***************************************************************************)
(* atob: forgiving base64 decoding, as the platform does it.               *)
(***************************************************************************)
Base64Alphabet ==
    <<"A", "B", "C", "D", "E", "F", "G", "H", "I", "J", "K", "L", "M", "N", "O", "P",
      "Q", "R", "S", "T", "U", "V", "W", "X", "Y", "Z", "a", "b", "c", "d", "e", "f",
      "g", "h", "i", "j", "k", "l", "m", "n", "o", "p", "q", "r", "s", "t", "u", "v",
      "w", "x", "y", "z", "0", "1", "2", "3", "4", "5", "6", "7", "8", "9", "+", "/">>

InvalidCharacterError ==
    [name |-> "InvalidCharacterError", path |-> <<>>, expected |-> "", got |-> ""]

Base64Value(c) == (CHOOSE i \in 1..64 : Base64Alphabet[i] = c) - 1

RECURSIVE Base64Decode(_)
Base64Decode(s) ==
    IF Len(s) >= 4
    THEN LET n == Base64Value(s[1]) * 262144 + Base64Value(s[2]) * 4096
                  + Base64Value(s[3]) * 64 + Base64Value(s[4])
         IN  <<n \div 65536, (n \div 256) % 256, n % 256>>
                 \o Base64Decode(SubSeq(s, 5, Len(s)))
    ELSE IF Len(s) = 3
    THEN LET n == (Base64Value(s[1]) * 4096 + Base64Value(s[2]) * 64
                   + Base64Value(s[3])) \div 4
         IN  <<n \div 256, n % 256>>
    ELSE IF Len(s) = 2
    THEN <<(Base64Value(s[1]) * 64 + Base64Value(s[2])) \div 16>>
    ELSE <<>>

atob(s) ==
    LET a == SelectSeq(s, LAMBDA c : c \notin WhiteSpace)
        b == IF Len(a) % 4 = 0 /\ Len(a) >= 1 /\ a[Len(a)] = "="
             THEN IF Len(a) >= 2 /\ a[Len(a) - 1] = "="
                  THEN SubSeq(a, 1, Len(a) - 2)
                  ELSE SubSeq(a, 1, Len(a) - 1)
             ELSE a
    IN  IF Len(b) % 4 = 1 \/ \E i \in 1..Len(b) : \A j \in 1..64 : Base64Alphabet[j] # b[i]
        THEN Throw(InvalidCharacterError)
        ELSE Ok(Base64Decode(b))

(***************************************************************************)
(* JsonDeserializer and YamlDeserializer: the typed entry points.  Each    *)
(* takes the raw data and the visitor and yields [visitor, out]: the       *)
(* visitor after the call and the call's outcome.                          *)
(***************************************************************************)
UnknownType(data) ==
    [name |-> "DeserializationError", path |-> <<>>, expected |-> "known type",
     got |-> TypeOf(data)]

IsObjectShape(data) == TypeOf(data) = "object" /\ data.k # "null" /\ ~IsArray(data)

\* deserializeAny without its Array.isArray branch.
deserializeAny_arrayAsMap(data, visitor) ==
    IF data.k \in {"null", "undefined"} THEN Visit(visitor, "visitNull", Undef)
    ELSE IF TypeOf(data) = "boolean" THEN Visit(visitor, "visitBool", data)
    ELSE IF TypeOf(data) = "number" THEN Visit(visitor, "visitNumber", data)
    ELSE IF TypeOf(data) = "string" THEN Visit(visitor, "visitString", data)
    ELSE IF TypeOf(data) = "object" THEN Visit(visitor, "visitMap", MapAccess(data))
    ELSE Reject(visitor, UnknownType(data))

deserializeAny(data, visitor) ==
    IF data.k \in {"null", "undefined"} THEN Visit(visitor, "visitNull", Undef)
    ELSE IF TypeOf(data) = "boolean" THEN Visit(visitor, "visitBool", data)
    ELSE IF TypeOf(data) = "number" THEN Visit(visitor, "visitNumber", data)
    ELSE IF TypeOf(data) = "string" THEN Visit(visitor, "visitString", data)
    ELSE IF IsArray(data) THEN Visit(visitor, "visitSeq", SeqAccess(data.v))
    ELSE IF TypeOf(data) = "object" THEN Visit(visitor, "visitMap", MapAccess(data))
    ELSE Reject(visitor, UnknownType(data))

deserializeBool(data, visitor) ==
    IF TypeOf(data) = "boolean" THEN Visit(visitor, "visitBool", data)
    ELSE Reject(visitor, DeserializationError("boolean", TypeOf(data)))

deserializeNumber(data, visitor) ==
    IF TypeOf(data) = "number" THEN Visit(visitor, "visitNumber", data)
    ELSE Reject(visitor, DeserializationError("number", TypeOf(data)))

deserializeString(data, visitor) ==
    IF TypeOf(data) = "string" THEN Visit(visitor, "visitString", data)
    ELSE Reject(visitor, DeserializationError("string", TypeOf(data)))

BinaryTag == <<"!", "!", "b", "i", "n", "a", "r", "y", " ">>

JsonDeserializeBytes(data, visitor) ==
    IF TypeOf(data) = "string"
    THEN IF atob(data.v).ok THEN Visit(visitor, "visitBytes", Bytes(atob(data.v).v))
         ELSE Reject(visitor, atob(data.v).v)
    ELSE Reject(visitor, DeserializationError("base64 string for bytes", TypeOf(data)))

YamlDeserializeBytes(data, visitor) ==
    IF TypeOf(data) = "string" /\ StartsWith(data.v, BinaryTag)
    THEN LET base64 == SelectSeq(SubSeq(data.v, 11, Len(data.v)), LAMBDA c : c # "\"")
         IN  IF atob(base64).ok THEN Visit(visitor, "visitBytes", Bytes(atob(base64).v))
             ELSE Reject(visitor, atob(base64).v)
    ELSE Reject(visitor, DeserializationError("binary string for bytes", TypeOf(data)))

deserializeBytes(backend, data, visitor) ==
    IF backend = "json" THEN JsonDeserializeBytes(data, visitor)
    ELSE YamlDeserializeBytes(data, visitor)

deserializeSeq(data, visitor) ==
    IF IsArray(data) THEN Visit(visitor, "visitSeq", SeqAccess(data.v))
    ELSE Reject(visitor, DeserializationError("array", TypeOf(data)))

deserializeMap(data, visitor) ==
    IF IsObjectShape(data) THEN Visit(visitor, "visitMap", MapAccess(data))
    ELSE Reject(visitor, DeserializationError("object", TypeOf(data)))

deserializeStructEntry(data, visitor) ==
    IF IsObjectShape(data) THEN Visit(visitor, "visitMap", MapAccess(data))
    ELSE Reject(visitor, DeserializationError("object for struct", TypeOf(data)))

\* deserializeOption announcing a present value with a visit of its own.
deserializeOption_visitTwice(data, visitor) ==
    IF data.k \in {"null", "undefined"} THEN Visit(visitor, "visitNull", Undef)
    ELSE deserializeAny(data, Visit(visitor, "visitString", data).visitor)

deserializeOption(data, visitor) ==
    IF data.k \in {"null", "undefined"} THEN Visit(visitor, "visitNull", Undef)
    ELSE deserializeAny(data, visitor)

deserializeEnum(data, visitor) == Visit(visitor, "visitEnum", EnumAccess(data))

(***************************************************************************)
(* SpecDispatch: one deserialize* call of a JsonDeserializer or a          *)
(* YamlDeserializer built over a raw value, with a fresh visitor.          *)
(***************************************************************************)
RawData ==
    {Undef, Null, Bool(TRUE), Num(7), NaN, Str(<<>>), Str(<<"x">>),
     Str(<<"Q", "U", "I", "=">>), Str(<<"!", "!", "b", "i", "n", "a", "r", "y", " ", "\"", "Q", "U", "I", "=", "\"">>),
     Arr(<<>>), Arr(<<Num(1), Str(<<"a">>)>>), Obj(<<>>), Obj(<<<<<<"a">>, Num(1)>>>>),
     Obj(<<<<<<"a">>, Num(1)>>, <<<<"b">>, Null>>>>), DateOf(1), Func}

VisitorKinds == {"BaseVisitor", "PrimitiveVisitor", "Visitor"}

InitDispatch ==
    /\ input \in [backend : {"json", "yaml"}, data : RawData, visitor : VisitorKinds]
    /\ call = NoCall
    /\ text = Ok(<<>>)
    /\ ret = Ok(Undef)
    /\ obj = Visitor(input.visitor)

\* Each action is one call: its outcome becomes ret, the visitor after the
\* call becomes obj.
CallDeserializeAny ==
    /\ call = NoCall
    /\ call' = "deserializeAny"
    /\ LET result == deserializeAny(input.data, obj)
       IN  ret' = result.out /\ obj' = result.visitor
    /\ UNCHANGED <<input, text>>

CallDeserializeBool ==
    /\ call = NoCall
    /\ call' = "deserializeBool"
    /\ LET result == deserializeBool(input.data, obj)
       IN  ret' = result.out /\ obj' = result.visitor
    /\ UNCHANGED <<input, text>>

CallDeserializeNumber ==
    /\ call = NoCall
    /\ call' = "deserializeNumber"
    /\ LET result == deserializeNumber(input.data, obj)
       IN  ret' = result.out /\ obj' = result.visitor
    /\ UNCHANGED <<input, text>>

CallDeserializeString ==
    /\ call = NoCall
    /\ call' = "deserializeString"
    /\ LET result == deserializeString(input.data, obj)
       IN  ret' = result.out /\ obj' = result.visitor
    /\ UNCHANGED <<input, text>>

CallDeserializeBytes ==
    /\ call = NoCall
    /\ call' = "deserializeBytes"
    /\ LET result == deserializeBytes(input.backend, input.data, obj)
       IN  ret' = result.out /\ obj' = result.visitor
    /\ UNCHANGED <<input, text>>

CallDeserializeSeq ==
    /\ call = NoCall
    /\ call' = "deserializeSeq"
    /\ LET result == deserializeSeq(input.data, obj)
       IN  ret' = result.out /\ obj' = result.visitor
    /\ UNCHANGED <<input, text>>

CallDeserializeMap ==
    /\ call = NoCall
    /\ call' = "deserializeMap"
    /\ LET result == deserializeMap(input.data, obj)
       IN  ret' = result.out /\ obj' = result.visitor
    /\ UNCHANGED <<input, text>>

CallDeserializeStruct ==
    /\ call = NoCall
    /\ call' = "deserializeStruct"
    /\ LET result == deserializeStructEntry(input.data, obj)
       IN  ret' = result.out /\ obj' = result.visitor
    /\ UNCHANGED <<input, text>>

CallDeserializeOption ==
    /\ call = NoCall
    /\ call' = "deserializeOption"
    /\ LET result == deserializeOption(input.data, obj)
       IN  ret' = result.out /\ obj' = result.visitor
    /\ UNCHANGED <<input, text>>

CallDeserializeEnum ==
    /\ call = NoCall
    /\ call' = "deserializeEnum"
    /\ LET result == deserializeEnum(input.data, obj)
       IN  ret' = result.out /\ obj' = result.visitor
    /\ UNCHANGED <<input, text>>

NextDispatch ==
    \/ CallDeserializeAny
    \/ CallDeserializeBool
    \/ CallDeserializeNumber
    \/ CallDeserializeString
    \/ CallDeserializeBytes
    \/ CallDeserializeSeq
    \/ CallDeserializeMap
    \/ CallDeserializeStruct
    \/ CallDeserializeOption
    \/ CallDeserializeEnum

SpecDispatch == InitDispatch /\ [][NextDispatch]_vars

\* The shape each typed entry point's name promises.
Promised(method, data) ==
    CASE method = "deserializeBool" -> data.k = "boolean"
      [] method = "deserializeNumber" -> data.k \in {"number", "nan", "decimal"}
      [] method \in {"deserializeString", "deserializeBytes"} -> data.k = "string"
      [] method = "deserializeSeq" -> data.k = "array"
      [] method \in {"deserializeMap", "deserializeStruct"} ->
            data.k \in {"object", "instance", "date"}
      [] method = "deserializeEnum" ->
            \/ data.k = "string"
            \/ data.k \in {"object", "instance"} /\ Len(ObjectEntries(data)) = 1
      [] OTHER -> TRUE

TypedEntryPoints ==
    {"deserializeBool", "deserializeNumber", "deserializeString", "deserializeBytes",
     "deserializeSeq", "deserializeMap", "deserializeStruct", "deserializeEnum"}

\* C11: a typed entry point called on a raw value whose shape is not the one
\* its name promises throws a DeserializationError that states the found
\* type, and the visitor has received no visit call.
C11_TypeMismatchRejection ==
    (call \in TypedEntryPoints /\ ~Promised(call, input.data))
        => /\ ~ret.ok
           /\ ret.v.name = "DeserializationError"
           /\ ret.v.got = TypeOf(input.data)
           /\ obj.visits = <<>>

\* The outcome of the visit call the visitor recorded first.
FirstVisitOutcome == Visit(Visitor(input.visitor), obj.visits[1][1], obj.visits[1][2]).out

\* C12: after any deserialize* call, either the visitor received exactly one
\* visit call and the call's outcome is that visit's outcome, or it received
\* none and the call threw; in particular a call that returned made one visit.
C12_SingleVisit ==
    call # NoCall
        => \/ Len(obj.visits) = 1 /\ ret.ok = FirstVisitOutcome.ok
                                  /\ ret = FirstVisitOutcome
           \/ obj.visits = <<>> /\ ~ret.ok

C12_Witness ==
    /\ call = "deserializeOption"
    /\ input.data.k = "number"
    /\ ret.ok
    /\ Len(obj.visits) = 1
    /\ obj.visits[1][1] = "visitNumber"

\* The visit deserializeAny owes to a raw value, by the value's shape alone.
ShapeVisit(data) ==
    CASE data.k \in {"null", "undefined"} -> <<"visitNull", Undef>>
      [] data.k = "boolean" -> <<"visitBool", data>>
      [] data.k \in {"number", "nan", "decimal"} -> <<"visitNumber", data>>
      [] data.k = "string" -> <<"visitString", data>>
      [] data.k = "array" -> <<"visitSeq", [k |-> "SeqAccess", v |-> <<data.v, 0>>]>>
      [] OTHER -> <<"visitMap", [k |-> "MapAccess", v |-> <<ObjectEntries(data), 0>>]>>

\* C13: deserializeAny makes the one visit its raw value's shape calls for,
\* whatever the visitor, and throws a DeserializationError without a visit
\* for a value that is neither a primitive nor an object.
C13_AnyDispatch ==
    call = "deserializeAny"
        => IF input.data.k = "function"
           THEN /\ obj.visits = <<>>
                /\ ~ret.ok
                /\ ret.v.name = "DeserializationError"
           ELSE /\ Len(obj.visits) = 1
                /\ obj.visits[1][1] = ShapeVisit(input.data)[1]
                /\ obj.visits[1][2] = ShapeVisit(input.data)[2]

C13_Witness ==
    /\ call = "deserializeAny"
    /\ input.data.k = "array"
    /\ input.data.v # <<>>
    /\ obj.visits[1][1] = "visitSeq"

(***************************************************************************)
(* Cursors: JsonSeqAccess / YamlSeqAccess and JsonMapAccess /              *)
(* YamlMapAccess.  A cursor is the value SeqAccess(array) or               *)
(* MapAccess(object): v[1] holds the elements or entries and v[2] the      *)
(* private index.  Each method yields [cursor, out]: the cursor after the  *)
(* call and the value returned.                                            *)
(***************************************************************************)
MaxCalls == 4

Advance(cursor) == [cursor EXCEPT !.v[2] = @ + 1]

nextElement(cursor) ==
    IF cursor.v[2] >= Len(cursor.v[1]) THEN [cursor |-> cursor, out |-> Undef]
    ELSE [cursor |-> Advance(cursor), out |-> cursor.v[1][cursor.v[2] + 1]]

nextEntry(cursor) ==
    IF cursor.v[2] >= Len(cursor.v[1]) THEN [cursor |-> cursor, out |-> Undef]
    ELSE LET entry == cursor.v[1][cursor.v[2] + 1]
         IN  [cursor |-> Advance(cursor), out |-> Arr(<<Str(entry[1]), entry[2]>>)]

nextKey(cursor) ==
    IF cursor.v[2] >= Len(cursor.v[1]) THEN [cursor |-> cursor, out |-> Undef]
    ELSE [cursor |-> cursor, out |-> Str(cursor.v[1][cursor.v[2] + 1][1])]

nextValue(cursor) ==
    IF cursor.v[2] > 0 /\ cursor.v[2] <= Len(cursor.v[1])
    THEN [cursor |-> cursor, out |-> cursor.v[1][cursor.v[2]][2]]
    ELSE [cursor |-> cursor, out |-> Undef]

sizeHint(cursor) == [cursor |-> cursor, out |-> Num(Len(cursor.v[1]) - cursor.v[2])]

(***************************************************************************)
(* SpecCursor: a visitor's calls on the cursor it was handed, in any       *)
(* order.  obj is [cursor, log]: log lists the calls made so far, each     *)
(* <<method, value returned>>.                                             *)
(***************************************************************************)
CursorData ==
    {Arr(<<>>), Arr(<<Num(1)>>), Arr(<<Str(<<"a">>), Null>>), Arr(<<Num(1), Num(1), Bool(FALSE)>>),
     Obj(<<>>), Obj(<<<<<<"a">>, Num(1)>>>>), Obj(<<<<<<"a">>, Num(1)>>, <<<<"b">>, Null>>>>),
     Obj(<<<<<<"b">>, Str(<<"x">>)>>, <<<<"a">>, Num(1)>>, <<<<"c">>, Num(1)>>>>)}

InitCursor ==
    /\ input \in [backend : {"json", "yaml"}, data : CursorData]
    /\ call = NoCall
    /\ text = Ok(<<>>)
    /\ ret = Ok(Undef)
    /\ obj = [cursor |-> IF IsArray(input.data) THEN SeqAccess(input.data.v)
                         ELSE MapAccess(input.data),
              log |-> <<>>]

CallNextElement ==
    /\ obj.cursor.k = "SeqAccess"
    /\ Len(obj.log) < MaxCalls
    /\ call' = "nextElement"
    /\ LET result == nextElement(obj.cursor)
       IN  /\ ret' = Ok(result.out)
           /\ obj' = [cursor |-> result.cursor,
                      log |-> Append(obj.log, <<"nextElement", result.out>>)]
    /\ UNCHANGED <<input, text>>

CallNextEntry ==
    /\ obj.cursor.k = "MapAccess"
    /\ Len(obj.log) < MaxCalls
    /\ call' = "nextEntry"
    /\ LET result == nextEntry(obj.cursor)
       IN  /\ ret' = Ok(result.out)
           /\ obj' = [cursor |-> result.cursor,
                      log |-> Append(obj.log, <<"nextEntry", result.out>>)]
    /\ UNCHANGED <<input, text>>

CallNextKey ==
    /\ obj.cursor.k = "MapAccess"
    /\ Len(obj.log) < MaxCalls
    /\ call' = "nextKey"
    /\ LET result == nextKey(obj.cursor)
       IN  /\ ret' = Ok(result.out)
           /\ obj' = [cursor |-> result.cursor,
                      log |-> Append(obj.log, <<"nextKey", result.out>>)]
    /\ UNCHANGED <<input, text>>

CallNextValue ==
    /\ obj.cursor.k = "MapAccess"
    /\ Len(obj.log) < MaxCalls
    /\ call' = "nextValue"
    /\ LET result == nextValue(obj.cursor)
       IN  /\ ret' = Ok(result.out)
           /\ obj' = [cursor |-> result.cursor,
                      log |-> Append(obj.log, <<"nextValue", result.out>>)]
    /\ UNCHANGED <<input, text>>

CallSizeHint ==
    /\ Len(obj.log) < MaxCalls
    /\ call' = "sizeHint"
    /\ LET result == sizeHint(obj.cursor)
       IN  /\ ret' = Ok(result.out)
           /\ obj' = [cursor |-> result.cursor,
                      log |-> Append(obj.log, <<"sizeHint", result.out>>)]
    /\ UNCHANGED <<input, text>>

NextCursor ==
    \/ CallNextElement
    \/ CallNextEntry
    \/ CallNextKey
    \/ CallNextValue
    \/ CallSizeHint

SpecCursor == InitCursor /\ [][NextCursor]_vars

\* The methods that hand out the cursor's elements.
YieldingMethods == {"nextElement", "nextEntry", "nextKey"}

\* The positions of the log at which method m was called.
CallsOf(m) == {i \in 1..Len(obj.log) : obj.log[i][1] = m}

\* What the j-th of the cursor's elements looks like when method m hands it out.
Yielded(m, j) ==
    CASE m = "nextElement" -> input.data.v[j]
      [] m = "nextEntry" -> Arr(<<Str(input.data.v[j][1]), input.data.v[j][2]>>)
      [] m = "nextKey" -> Str(input.data.v[j][1])

\* m is the only element-yielding method called so far.
OnlyYielding(m) == \A i \in 1..Len(obj.log) : obj.log[i][1] \in YieldingMethods => obj.log[i][1] = m

\* C14: for nextElement, nextEntry and nextKey: once a call has returned
\* undefined every later call of that method returns undefined, whatever
\* other cursor calls come between; and on a cursor over n elements the j-th
\* call of the method returns the j-th element for j <= n and undefined after.
C14_CursorExhaustion ==
    \A m \in YieldingMethods :
        /\ \A i \in CallsOf(m) : \A j \in CallsOf(m) :
              (i < j /\ obj.log[i][2].k = "undefined") => obj.log[j][2].k = "undefined"
        /\ OnlyYielding(m) =>
              \A i \in CallsOf(m) :
                  LET j == Cardinality({h \in CallsOf(m) : h <= i})
                  IN  IF j <= Len(input.data.v)
                      THEN obj.log[i][2].k = Yielded(m, j).k /\ obj.log[i][2] = Yielded(m, j)
                      ELSE obj.log[i][2].k = "undefined"

(***************************************************************************)
(* fromYaml, and SpecBlog: a Blog built by its constructor and addPost is  *)
(* written and read back through the JSON backend, then through the YAML   *)
(* backend.  obj keeps what fromString returned while the YAML calls run.  *)
(***************************************************************************)
\* fromYaml(yaml, ctor)
fromYaml(yaml, ctor) == Deserialize(ctor, YamlParse(yaml))

\* new User(name, email, age?, password?)
Authors ==
    {Instance("User", <<<<S_name, Str(S_a)>>, <<S_email, Str(S_n)>>, <<S_age, Num(1)>>,
                        <<S_password, Str(S_p)>>>>),
     Instance("User", <<<<S_name, Str(S_n)>>, <<S_email, Str(S_q)>>, <<S_age, Undef>>,
                        <<S_password, Undef>>>>)}

\* new Post(title, content, author, tags)
Posts ==
    {Instance("Post", <<<<S_title, Str(t)>>, <<S_content, Str(S_x)>>, <<S_author, a>>,
                        <<S_createdAt, DateOf(1)>>, <<S_tags, Arr(tags)>>>>) :
        t \in {S_a, S_p}, a \in Authors, tags \in {<<>>, <<Str(S_a)>>}}

\* Blog.addPost: the post is appended, its author too unless one with the
\* same email is already listed.
addPost(blog, post) ==
    LET posts == GetProp(blog.v.props, S_posts).v
        authors == GetProp(blog.v.props, S_authors).v
        author == GetProp(post.v.props, S_author)
        known == \E i \in 1..Len(authors) :
                    GetProp(authors[i].v.props, S_email) = GetProp(author.v.props, S_email)
    IN  Instance("Blog",
                 SetProp(SetProp(blog.v.props, S_posts, Arr(Append(posts, post))),
                         S_authors, Arr(IF known THEN authors ELSE Append(authors, author))))

\* new Blog(name, description)
NewBlog(name, description) ==
    Instance("Blog", <<<<S_name, Str(name)>>, <<S_description, Str(description)>>,
                       <<S_posts, Arr(<<>>)>>, <<S_authors, Arr(<<>>)>>>>)

Blogs ==
    LET empty == {NewBlog(n, d) : n \in {S_a, S_n}, d \in {S_x, <<>>}}
        one == {addPost(b, p) : b \in empty, p \in Posts}
    IN  empty \cup one

InitBlog ==
    /\ input \in [value : Blogs]
    /\ call = NoCall
    /\ text = Ok(<<>>)
    /\ ret = Ok(Undef)
    /\ obj = Undef

BlogToString ==
    /\ call = NoCall
    /\ call' = "toString"
    /\ text' = JsonToString(input.value)
    /\ UNCHANGED <<input, ret, obj>>

BlogFromString ==
    /\ call = "toString"
    /\ text.ok
    /\ call' = "fromString"
    /\ ret' = JsonFromString(text.v, "Blog")
    /\ UNCHANGED <<input, text, obj>>

BlogToYaml ==
    /\ call = "fromString"
    /\ call' = "toYaml"
    /\ text' = toYaml(input.value)
    /\ obj' = ret
    /\ UNCHANGED <<input, ret>>

BlogFromYaml ==
    /\ call = "toYaml"
    /\ text.ok
    /\ call' = "fromYaml"
    /\ ret' = fromYaml(text.v, "Blog")
    /\ UNCHANGED <<input, text, obj>>

NextBlog == BlogToString \/ BlogFromString \/ BlogToYaml \/ BlogFromYaml

SpecBlog == InitBlog /\ [][NextBlog]_vars

\* C15: a Blog with its posts, each post's author and its list of authors
\* comes back from fromString(toString(b)) and from fromYaml(toYaml(b)) as
\* Blogs that equal b, and each other, on every declared, non-skipped field
\* at every level of nesting.
C15_NestedRoundTrip ==
    /\ call = "fromString" => ret.ok /\ EqualDeclared("Blog", ret.v, input.value)
    /\ call = "fromYaml" =>
          /\ ret.ok /\ EqualDeclared("Blog", ret.v, input.value)
          /\ obj.ok /\ EqualDeclared("Blog", ret.v, obj.v)

(***************************************************************************)
(* SpecYaml: an instance of a flat class with a string field and a number  *)
(* field goes through toYaml and the text through fromYaml.                *)
(***************************************************************************)
YamlStrings ==
    {S_a, <<>>, <<"7">>, CharsOf("true"), CharsOf("null"), <<"a", "-", "b">>, <<"a", " ">>}

YamlClasses ==
    {<<[Field(S_p, TypeStr("string")) EXCEPT !.isOptional = o]>> : o \in BOOLEAN}
        \cup {<<[Field(S_p, TypeStr("string")) EXCEPT !.isOptional = o],
                [Field(S_q, TypeStr("number")) EXCEPT !.isOptional = u]>> : o, u \in BOOLEAN}

\* The property lists of the instances of such a class.
RECURSIVE YamlProps(_)
YamlProps(fields) ==
    IF fields = <<>> THEN {<<>>}
    ELSE LET f == Head(fields)
             values == IF f.type.base = "string" THEN {Str(s) : s \in YamlStrings}
                       ELSE {Num(1), Num(12)}
         IN  {<<<<f.propertyName, x>>>> \o rest : x \in values, rest \in YamlProps(Tail(fields))}
                \cup (IF f.isOptional THEN YamlProps(Tail(fields)) ELSE {})

InitYaml ==
    /\ \E cls \in YamlClasses :
          input \in {[cls |-> cls, value |-> Instance("T", props)] : props \in YamlProps(cls)}
    /\ call = NoCall
    /\ text = Ok(<<>>)
    /\ ret = Ok(Undef)
    /\ obj = Undef

CallToYaml ==
    /\ call = NoCall
    /\ call' = "toYaml"
    /\ text' = toYaml(input.value)
    /\ UNCHANGED <<input, ret, obj>>

CallFromYaml ==
    /\ call = "toYaml"
    /\ text.ok
    /\ call' = "fromYaml"
    /\ ret' = fromYaml(text.v, "T")
    /\ UNCHANGED <<input, text, obj>>

NextYaml == CallToYaml \/ CallFromYaml

SpecYaml == InitYaml /\ [][NextYaml]_vars

\* C16: fromYaml(toYaml(v), T) returns an instance of T equal to v on its
\* declared fields, for every instance v of a flat class with a string and a
\* number field, whatever the strings and whether or not the optional fields
\* are set.
C16_YamlRoundTrip ==
    /\ call = "toYaml" => text.ok
    /\ call = "fromYaml" => ret.ok /\ EqualDeclared("T", ret.v, input.value)

(***************************************************************************)
(* Re-serialization, under Spec.                                           *)
(***************************************************************************)
Reserialized ==
    /\ call = "toString" => text.ok
    /\ call = "fromString" => ret.ok
    /\ call = "toStringAgain" => obj.ok /\ obj.v = text.v

MaxMembers == 3

\* JsonSeqSerializer.serializeElement: the private array after the call.
JsonSerializeElement(array, value) ==
    IF HasSerialize(value)
    THEN LET nested == JsonSerializeInstance(value, <<>>)
         IN  IF ~nested.ok THEN nested ELSE Ok(Append(array, JsonGetResult(nested.v)))
    ELSE Ok(Append(array, value))

\* JsonMapSerializer.serializeEntry: the private object after the call.
JsonSerializeEntry(object, key, value) ==
    LET keyStr == JSString(key)
    IN  IF HasSerialize(value)
        THEN LET nested == JsonSerializeInstance(value, <<>>)
             IN  IF ~nested.ok THEN nested
                 ELSE Ok(SetProp(object, keyStr, JsonGetResult(nested.v)))
        ELSE Ok(SetProp(object, keyStr, value))

\* end() of JsonSeqSerializer: the output after the call.
JsonSeqEnd(output, array) == Append(output, Arr(array))

\* end() of JsonMapSerializer and JsonStructSerializer.
JsonObjectEnd(output, object) == Append(output, Obj(object))

\* YamlSeqSerializer.serializeElement: the lines after the call.
YamlSerializeElement(lines, indentLevel, value) ==
    LET indent == Indent(indentLevel)
    IN  IF HasSerialize(value)
        THEN LET nested == YamlSerializeInstance(value, <<>>, indentLevel + 1)
             IN  IF ~nested.ok THEN nested
                 ELSE LET result == YamlGetResult(nested.v)
                          parts == Split(result, "\n")
                      IN  IF Includes(result, <<"\n">>)
                          THEN Ok(Append(lines, indent \o <<"-", " ", "|">>)
                                    \o [i \in 1..Len(parts) |-> indent \o <<" ", " ">> \o parts[i]])
                          ELSE Ok(Append(lines, indent \o <<"-", " ">> \o result))
        ELSE Ok(Append(lines, indent \o <<"-", " ">> \o formatSimpleValue(value)))

\* YamlMapSerializer.serializeEntry: the lines after the call.
YamlSerializeEntry(lines, indentLevel, key, value) ==
    LET indent == Indent(indentLevel)
        keyStr == JSString(key)
    IN  IF HasSerialize(value)
        THEN LET nested == YamlSerializeInstance(value, <<>>, indentLevel + 1)
             IN  IF ~nested.ok THEN nested
                 ELSE LET result == Split(YamlGetResult(nested.v), "\n")
                      IN  Ok(Append(lines, indent \o keyStr \o <<":">>)
                                \o [i \in 1..Len(result) |-> indent \o <<" ", " ">> \o result[i]])
        ELSE Ok(Append(lines, indent \o keyStr \o <<":", " ">> \o formatSimpleValue(value)))

\* end() of the three YAML sub-serializers: the lines after the call.
YamlEnd(lines) == lines

(***************************************************************************)
(* SpecSub: serializeSeq, serializeMap or serializeStruct on a fresh       *)
(* serializer, then element, entry or field calls and one end().  obj is   *)
(* [out, pending, calls, ended]: out is the serializer's running buffer    *)
(* (output of a JsonSerializer, lines of a YamlSerializer), pending the    *)
(* sub-serializer's private array or object, calls the <<key, value>>      *)
(* pairs given so far.                                                     *)
(***************************************************************************)
MemberValues == {Num(1), Str(S_a), Null, UserOf(<<>>)}

MemberKeys == {Str(S_a), Str(S_n), Num(1)}

InitSub ==
    /\ input \in [backend : {"json", "yaml"}, kind : {"seq", "map", "struct"}]
    /\ call = NoCall
    /\ text = Ok(<<>>)
    /\ ret = Ok(Undef)
    /\ obj = [out |-> <<>>, pending |-> <<>>, calls |-> <<>>, ended |-> FALSE]

\* The state after a call that changed the buffer or the private collection.
AfterMember(changed, key, value) ==
    [obj EXCEPT !.out = IF input.backend = "yaml" THEN changed ELSE @,
                !.pending = IF input.backend = "json" THEN changed ELSE @,
                !.calls = Append(@, <<key, value>>)]

CallSerializeElement ==
    /\ input.kind = "seq" /\ ~obj.ended /\ Len(obj.calls) < MaxMembers
    /\ call' = "serializeElement"
    /\ \E value \in MemberValues :
          LET r == IF input.backend = "json" THEN JsonSerializeElement(obj.pending, value)
                   ELSE YamlSerializeElement(obj.out, 0, value)
          IN  /\ ret' = IF r.ok THEN Ok(Undef) ELSE r
              /\ obj' = IF r.ok THEN AfterMember(r.v, Undef, value) ELSE obj
    /\ UNCHANGED <<input, text>>

CallSerializeEntry ==
    /\ input.kind = "map" /\ ~obj.ended /\ Len(obj.calls) < MaxMembers
    /\ call' = "serializeEntry"
    /\ \E key \in MemberKeys, value \in MemberValues :
          LET r == IF input.backend = "json" THEN JsonSerializeEntry(obj.pending, key, value)
                   ELSE YamlSerializeEntry(obj.out, 0, key, value)
          IN  /\ ret' = IF r.ok THEN Ok(Undef) ELSE r
              /\ obj' = IF r.ok THEN AfterMember(r.v, key, value) ELSE obj
    /\ UNCHANGED <<input, text>>

CallSerializeField ==
    /\ input.kind = "struct" /\ ~obj.ended /\ Len(obj.calls) < MaxMembers
    /\ call' = "serializeField"
    /\ \E name \in {S_a, S_n, S_p}, value \in MemberValues :
          LET r == IF input.backend = "json" THEN JsonSerializeField(obj.pending, name, value)
                   ELSE YamlSerializeField(obj.out, 0, name, value)
          IN  /\ ret' = IF r.ok THEN Ok(Undef) ELSE r
              /\ obj' = IF r.ok THEN AfterMember(r.v, Str(name), value) ELSE obj
    /\ UNCHANGED <<input, text>>

\* end()
CallEnd ==
    /\ ~obj.ended
    /\ call' = "end"
    /\ ret' = Ok(Undef)
    /\ obj' = [obj EXCEPT !.ended = TRUE,
                          !.out = IF input.backend = "yaml" THEN YamlEnd(@)
                                  ELSE IF input.kind = "seq" THEN JsonSeqEnd(@, obj.pending)
                                  ELSE JsonObjectEnd(@, obj.pending)]
    /\ UNCHANGED <<input, text>>

NextSub == CallSerializeElement \/ CallSerializeEntry \/ CallSerializeField \/ CallEnd

SpecSub == InitSub /\ [][NextSub]_vars

\* The keys given so far are pairwise distinct as strings.
DistinctKeys ==
    \A i, j \in 1..Len(obj.calls) :
        (i # j /\ input.kind # "seq") => JSString(obj.calls[i][1]) # JSString(obj.calls[j][1])

\* The number of members of the compound value the buffer holds: elements of
\* the one array or entries of the one object of a JSON output, top-level
\* lines of a YAML text.
MembersWritten ==
    IF input.backend = "json"
    THEN IF Len(obj.out) = 1 /\ obj.out[1].k \in {"array", "object"}
         THEN Len(obj.out[1].v) ELSE -1
    ELSE Cardinality({i \in 1..Len(obj.out) : obj.out[i] # <<>> /\ obj.out[i][1] # " "})

\* C18: while a sub-serializer has not been ended the serializer's running
\* buffer stays empty, whatever element, entry or field calls were made; once
\* end() has been called after k calls (with distinct keys) the buffer holds
\* the compound value once, with k members.
C18_SubSerializerFinalisation ==
    /\ ~obj.ended => obj.out = <<>>
    /\ (obj.ended /\ DistinctKeys) => MembersWritten = Len(obj.calls)

(***************************************************************************)
(* The trait helpers: isSerializable, serialize, serializeUnknown.  A      *)
(* serializer is given by its backend and its buffer (output of a          *)
(* JsonSerializer, lines of a YamlSerializer); each helper yields          *)
(* [out, buffer]: the call's outcome and the buffer after the call.        *)
(***************************************************************************)
isSerializable(value) == TypeOf(value) = "object" /\ value.k # "null" /\ value.k = "instance"

NotSerializable(value) ==
    [name |-> "Error", path |-> <<>>, expected |-> "Serialize trait", got |-> TypeOf(value)]

\* value[SERIALIZE](serializer)
serialize(backend, value, buffer) ==
    LET r == IF backend = "json" THEN JsonSerializeInstance(value, buffer)
             ELSE YamlSerializeInstance(value, buffer, 0)
    IN  IF r.ok THEN [out |-> Ok(Undef), buffer |-> r.v] ELSE [out |-> r, buffer |-> buffer]

serializeUnknown(backend, value, buffer) ==
    IF isSerializable(value) THEN serialize(backend, value, buffer)
    ELSE [out |-> Throw(NotSerializable(value)), buffer |-> buffer]

(***************************************************************************)
(* SpecUnknown: one helper call with any value and a serializer that may   *)
(* already hold something.  obj is the serializer's buffer.                *)
(***************************************************************************)
UnknownValues ==
    ElemPool \cup Users \cup Authors
        \cup {Num(0), Str(<<>>), Bool(FALSE), Arr(<<Num(1)>>), Obj(<<<<S_a, Num(1)>>>>),
              DateOf(1), Func}

InitUnknown ==
    /\ input \in [backend : {"json", "yaml"}, value : UnknownValues, used : BOOLEAN]
    /\ call = NoCall
    /\ text = Ok(<<>>)
    /\ ret = Ok(Undef)
    /\ obj = IF ~input.used THEN <<>>
             ELSE IF input.backend = "json" THEN <<Num(1)>> ELSE <<<<"1">>>>

CallIsSerializable ==
    /\ call = NoCall
    /\ call' = "isSerializable"
    /\ ret' = Ok(Bool(isSerializable(input.value)))
    /\ UNCHANGED <<input, text, obj>>

CallSerialize ==
    /\ call = NoCall
    /\ isSerializable(input.value)
    /\ call' = "serialize"
    /\ LET r == serialize(input.backend, input.value, obj)
       IN  ret' = r.out /\ obj' = r.buffer
    /\ UNCHANGED <<input, text>>

CallSerializeUnknown ==
    /\ call = NoCall
    /\ call' = "serializeUnknown"
    /\ LET r == serializeUnknown(input.backend, input.value, obj)
       IN  ret' = r.out /\ obj' = r.buffer
    /\ UNCHANGED <<input, text>>

NextUnknown == CallIsSerializable \/ CallSerialize \/ CallSerializeUnknown

SpecUnknown == InitUnknown /\ [][NextUnknown]_vars

\* The buffer the serializer was handed over with.
BufferBefore ==
    IF ~input.used THEN <<>>
    ELSE IF input.backend = "json" THEN <<Num(1)>> ELSE <<<<"1">>>>

\* C19: serializeUnknown on a value without the Serialize capability (null,
\* undefined, a primitive, an array or object without the SERIALIZE member)
\* throws a SerializationError that names the value's type, and leaves the
\* serializer's buffer as it was.
C19_SerializeUnknownRejects ==
    (call = "serializeUnknown" /\ input.value.k # "instance")
        => /\ ~ret.ok
           /\ ret.v.name = "SerializationError"
           /\ ret.v.got = TypeOf(input.value)
           /\ obj = BufferBefore

(***************************************************************************)
(* SpecPrimitive: one validation primitive applied to a value of any kind. *)
(***************************************************************************)
PrimitiveInputs ==
    ElemPool \cup {Num(0), Str(<<>>), Bool(FALSE), Arr(<<Num(1), Str(S_a), Null>>),
                   Obj(<<<<S_a, Num(1)>>>>), DateOf(1), UserOf(<<>>), Func}

InitPrimitive ==
    /\ input \in [value : PrimitiveInputs, fieldPath : FieldPaths]
    /\ call = NoCall
    /\ text = Ok(<<>>)
    /\ ret = Ok(Undef)
    /\ obj = Undef

CallValidateString ==
    /\ call = NoCall
    /\ call' = "validateString"
    /\ ret' = validateString(input.value, input.fieldPath)
    /\ UNCHANGED <<input, text, obj>>

CallValidateNumber ==
    /\ call = NoCall
    /\ call' = "validateNumber"
    /\ ret' = validateNumber(input.value, input.fieldPath)
    /\ UNCHANGED <<input, text, obj>>

CallValidateBoolean ==
    /\ call = NoCall
    /\ call' = "validateBoolean"
    /\ ret' = validateBoolean(input.value, input.fieldPath)
    /\ UNCHANGED <<input, text, obj>>

CallValidateArray ==
    /\ call = NoCall
    /\ call' = "validateArray"
    /\ ret' = validateArray(input.value, input.fieldPath)
    /\ UNCHANGED <<input, text, obj>>

CallValidateObject ==
    /\ call = NoCall
    /\ call' = "validateObject"
    /\ ret' = validateObject(input.value, input.fieldPath)
    /\ UNCHANGED <<input, text, obj>>

NextPrimitive ==
    \/ CallValidateString
    \/ CallValidateNumber
    \/ CallValidateBoolean
    \/ CallValidateArray
    \/ CallValidateObject

SpecPrimitive == InitPrimitive /\ [][NextPrimitive]_vars

\* The kind each primitive expects, as its error message words it.
ExpectedWord ==
    CASE call = "validateString" -> "string"
      [] call = "validateNumber" -> "number"
      [] call = "validateBoolean" -> "boolean"
      [] call = "validateArray" -> "array"
      [] call = "validateObject" -> "object"

\* The value has the kind the primitive called expects.
OfExpectedKind ==
    CASE call = "validateString" -> input.value.k = "string"
      [] call = "validateNumber" -> input.value.k \in {"number", "decimal"}
      [] call = "validateBoolean" -> input.value.k = "boolean"
      [] call = "validateArray" -> input.value.k = "array"
      [] call = "validateObject" -> input.value.k \in {"object", "instance", "date", "invalidDate"}

\* The kind of a value as JavaScript's typeof names it.
ActualWord ==
    CASE input.value.k = "undefined" -> "undefined"
      [] input.value.k = "boolean" -> "boolean"
      [] input.value.k \in {"number", "decimal", "nan"} -> "number"
      [] input.value.k = "string" -> "string"
      [] input.value.k = "function" -> "function"
      [] OTHER -> "object"

\* C20: a validation primitive returns its argument when the argument has
\* the expected kind, and otherwise throws a ValidationError carrying the
\* field path, the expected kind and the argument's kind (typeof); NaN is
\* rejected by validateNumber as not a valid number, an array is accepted by
\* validateArray whatever its elements, and validateObject rejects arrays,
\* null and undefined.
C20_ValidationPrimitives ==
    call # NoCall =>
        IF OfExpectedKind
        THEN ret.ok /\ ret.v.k = input.value.k /\ ret.v = input.value
        ELSE /\ ~ret.ok
             /\ ret.v.name = "ValidationError"
             /\ ret.v.path = input.fieldPath
             /\ IF call = "validateNumber" /\ input.value.k = "nan"
                THEN ret.v.expected = "valid number" /\ ret.v.got = "NaN"
                ELSE ret.v.expected = ExpectedWord /\ ret.v.got = ActualWord

\* validateObject has rejected an array.
C20_Witness ==
    /\ call = "validateObject"
    /\ input.value.k = "array"
    /\ ~ret.ok
    /\ ret.v = ValidationError(input.fieldPath, "object", "object")

(***************************************************************************)
(* SpecPair: two top-level invocations whose steps interleave.  In mode    *)
(* "serialize" each runs a generated [SERIALIZE] on its own JsonSerializer: *)
(* a step is the next serializeField call, or end() after the last one.    *)
(* In mode "deserialize" each runs a visitMap loop on its own              *)
(* JsonMapAccess: a step is one nextEntry call.  obj is the pair of the    *)
(* invocations' states: [pc, pending, out, ended] for a serialization      *)
(* (pending is the struct serializer's private object, out the             *)
(* serializer's output), [cursor, log] for a deserialization.              *)
(***************************************************************************)
NewSerialization == [pc |-> 0, pending |-> <<>>, out |-> <<>>, ended |-> FALSE]

NewDeserialization(data) == [cursor |-> MapAccess(data), log |-> <<>>]

\* One step of self[SERIALIZE](serializer) on a struct serializer of its own,
\* run by an invocation where every struct serializer collects into the
\* first invocation's object.
SerializeStep_shared(inv, self) ==
    LET calls == generateSerializeMethod(self.v.cls, ClassFields(self.v.cls)).fieldSerializations
    IN  IF inv.pc < Len(calls)
        THEN LET value == EvalFieldExpr(calls[inv.pc + 1].expr, self, calls[inv.pc + 1].prop)
                 next == JsonSerializeField(obj[1].pending, calls[inv.pc + 1].key, value.v)
             IN  [inv EXCEPT !.pc = @ + 1, !.pending = next.v]
        ELSE [inv EXCEPT !.ended = TRUE, !.out = JsonObjectEnd(@, inv.pending)]

\* One step of self[SERIALIZE](serializer): the next serializeField call of
\* the generated method, or struct.end() when all have been made.
SerializeStep(inv, self) ==
    LET calls == generateSerializeMethod(self.v.cls, ClassFields(self.v.cls)).fieldSerializations
    IN  IF inv.pc < Len(calls)
        THEN LET value == EvalFieldExpr(calls[inv.pc + 1].expr, self, calls[inv.pc + 1].prop)
                 next == JsonSerializeField(inv.pending, calls[inv.pc + 1].key, value.v)
             IN  [inv EXCEPT !.pc = @ + 1, !.pending = next.v]
        ELSE [inv EXCEPT !.ended = TRUE, !.out = JsonObjectEnd(@, inv.pending)]

\* One iteration of a generated visitMap loop: entry = map.nextEntry().
DeserializeStep(inv) ==
    LET r == nextEntry(inv.cursor)
    IN  [cursor |-> r.cursor, log |-> Append(inv.log, r.out)]

PairValues ==
    Authors \cup {p \in Posts : GetProp(p.v.props, S_title) = Str(S_a)}

PairData == {d \in CursorData : ~IsArray(d)}

InitPair ==
    /\ \/ input \in [mode : {"serialize"}, a : PairValues, b : PairValues]
       \/ input \in [mode : {"deserialize"}, a : PairData, b : PairData]
    /\ call = NoCall
    /\ text = Ok(<<>>)
    /\ ret = Ok(Undef)
    /\ obj = IF input.mode = "serialize" THEN <<NewSerialization, NewSerialization>>
             ELSE <<NewDeserialization(input.a), NewDeserialization(input.b)>>

FirstSerializes ==
    /\ input.mode = "serialize" /\ ~obj[1].ended
    /\ call' = "first"
    /\ obj' = <<SerializeStep(obj[1], input.a), obj[2]>>
    /\ UNCHANGED <<input, text, ret>>

SecondSerializes ==
    /\ input.mode = "serialize" /\ ~obj[2].ended
    /\ call' = "second"
    /\ obj' = <<obj[1], SerializeStep(obj[2], input.b)>>
    /\ UNCHANGED <<input, text, ret>>

FirstDeserializes ==
    /\ input.mode = "deserialize"
    /\ IF obj[1].log = <<>> THEN TRUE ELSE obj[1].log[Len(obj[1].log)].k # "undefined"
    /\ call' = "first"
    /\ obj' = <<DeserializeStep(obj[1]), obj[2]>>
    /\ UNCHANGED <<input, text, ret>>

SecondDeserializes ==
    /\ input.mode = "deserialize"
    /\ IF obj[2].log = <<>> THEN TRUE ELSE obj[2].log[Len(obj[2].log)].k # "undefined"
    /\ call' = "second"
    /\ obj' = <<obj[1], DeserializeStep(obj[2])>>
    /\ UNCHANGED <<input, text, ret>>

NextPair == FirstSerializes \/ SecondSerializes \/ FirstDeserializes \/ SecondDeserializes

SpecPair == InitPair /\ [][NextPair]_vars

\* The state of an invocation that has made n steps with nothing else running.
RECURSIVE SerializedAlone(_, _)
SerializedAlone(self, n) ==
    IF n = 0 THEN NewSerialization ELSE SerializeStep(SerializedAlone(self, n - 1), self)

RECURSIVE DeserializedAlone(_, _)
DeserializedAlone(data, n) ==
    IF n = 0 THEN NewDeserialization(data) ELSE DeserializeStep(DeserializedAlone(data, n - 1))

StepsMade(inv) == IF inv.ended THEN inv.pc + 1 ELSE inv.pc

DefaultOf(type) == IF type.base = "string" THEN Str(<<"d">>) ELSE Num(0)

MissingFieldsP ==
    {[propertyName |-> S_p, type |-> type,
      options |-> [NoOptions EXCEPT !.name = name, !.required = required,
                                    !.default = IF withDefault THEN DefaultOf(type) ELSE Undef],
      isOptional |-> opt, isIgnored |-> FALSE] :
        type \in {TypeStr("string"), TypeStr("number")}, name \in {Undef, Str(S_n)},
        required \in {Undef, Bool(TRUE), Bool(FALSE)}, withDefault \in BOOLEAN,
        opt \in BOOLEAN}

MissingDocs(f) ==
    {Obj(a \o b) :
        a \in {<<>>, <<<<SerializedName(f), IF f.type.base = "string" THEN Str(S_a) ELSE Num(1)>>>>},
        b \in {<<>>, <<<<S_q, Num(1)>>>>}}

InitMissing ==
    /\ \E f \in MissingFieldsP :
          input \in {[cls |-> <<f, Field(S_q, TypeStr("number"))>>, data |-> doc] :
                        doc \in MissingDocs(f)}
    /\ call = NoCall
    /\ text = Ok(<<>>)
    /\ ret = Ok(Undef)
    /\ obj = Undef

\* deserialize(T, new JsonDeserializer(data))
MissingDeserialize ==
    /\ call = NoCall
    /\ call' = "deserialize"
    /\ ret' = Deserialize("T", input.data)
    /\ UNCHANGED <<input, text, obj>>

\* fromString(JSON.stringify(data), T)
MissingFromString ==
    /\ call = NoCall
    /\ call' = "fromString"
    /\ ret' = JsonFromString(JSONstringify(input.data), "T")
    /\ UNCHANGED <<input, text, obj>>

NextMissing == MissingDeserialize \/ MissingFromString

SpecMissing == InitMissing /\ [][NextMissing]_vars

\* The document has no entry under the output name of field p.
KeyMissing ==
    \A i \in 1..Len(input.data.v) : input.data.v[i][1] # SerializedName(input.cls[1])

NestedValues ==
    {Str(S_a), Num(1), Null, Arr(<<>>),
     Obj(<<<<S_name, Str(S_a)>>, <<S_email_address, Str(S_n)>>>>),
     Obj(<<<<S_name, Num(1)>>>>), Obj(<<>>)}

NestedCtors == {"User", "Plain"}

InitNested ==
    /\ input \in {[data |-> Obj(<<<<S_author, a>>, <<S_q, b>>>>), ctor |-> ctor] :
                    a \in NestedValues, b \in NestedValues, ctor \in NestedCtors}
    /\ call = NoCall
    /\ text = Ok(<<>>)
    /\ ret = Ok(Undef)
    /\ obj = [deserializer |-> [data |-> input.data, cursor |-> MapAccess(input.data)],
              entry |-> Undef, passed |-> <<>>, created |-> <<>>, invoked |-> <<>>]

\* entry = map.nextEntry() of the outer visitor
NestedNextEntry ==
    /\ call \in {NoCall, "deserializeNestedObject"}
    /\ ret.ok
    /\ LET r == nextEntry(obj.deserializer.cursor)
       IN  /\ r.out.k # "undefined"
           /\ obj' = [obj EXCEPT !.deserializer.cursor = r.cursor, !.entry = r.out]
    /\ call' = "nextEntry"
    /\ UNCHANGED <<input, text, ret>>

\* deserializeNestedObject(value, ctor, deserializer, key)
CallDeserializeNestedObject ==
    /\ call = "nextEntry"
    /\ LET value == obj.entry.v[2]
           fieldPath == obj.entry.v[1].v
           checked == validateObject(value, fieldPath)
       IN  /\ ret' = deserializeNestedObject(value, input.ctor, fieldPath)
           /\ obj' = IF checked.ok /\ HasDeserialize(input.ctor)
                     THEN [obj EXCEPT !.passed = Append(@, value),
                                      !.created = Append(@, value),
                                      !.invoked = Append(@, Len(obj.created) + 1)]
                     ELSE [obj EXCEPT !.passed = Append(@, value)]
    /\ call' = "deserializeNestedObject"
    /\ UNCHANGED <<input, text>>

NextNested == NestedNextEntry \/ CallDeserializeNestedObject

SpecNested == InitNested /\ [][NextNested]_vars

\* The object-shaped values among those passed, in order.
ObjectShaped(values) == SelectSeq(values, IsObjectShape)

ArrayElements ==
    {Obj(<<<<S_name, Str(S_a)>>, <<S_email_address, Str(S_n)>>>>),
     Obj(<<<<S_name, Num(1)>>>>), Obj(<<>>), Str(S_a), Null}

ArrayInputs ==
    {Arr(s) : s \in SeqsUpTo(ArrayElements, MaxArr)}
        \cup {Str(S_a), Num(1), Null, Undef, Obj(<<<<S_name, Str(S_a)>>>>)}

InitArray ==
    /\ input \in {[value |-> v, ctor |-> "User", fieldPath |-> S_authors] : v \in ArrayInputs}
    /\ call = NoCall
    /\ text = Ok(<<>>)
    /\ ret = Ok(Undef)
    /\ obj = Undef

\* deserializeObjectArray(value, User, deserializer, "authors")
CallDeserializeObjectArray ==
    /\ call = NoCall
    /\ call' = "deserializeObjectArray"
    /\ ret' = deserializeObjectArray(input.value, input.ctor, input.fieldPath)
    /\ UNCHANGED <<input, text, obj>>

\* validateObjectArray(value, "authors"), the check without the element type
ArrayValidateObjectArray ==
    /\ call = NoCall
    /\ call' = "validateObjectArray"
    /\ ret' = validateObjectArray(input.value, input.fieldPath)
    /\ UNCHANGED <<input, text, obj>>

NextArray == CallDeserializeObjectArray \/ ArrayValidateObjectArray

SpecArray == InitArray /\ [][NextArray]_vars

\* The outcome of element i (0-based) of the raw array.
ElementOutcome(i) ==
    deserializeNestedObject(input.value.v[i + 1], input.ctor, IndexedPath(input.fieldPath, i))

\* The 0-based indexes of the elements that fail.
FailingElements == {i \in 0..(Len(input.value.v) - 1) : ~ElementOutcome(i).ok}

\* C24: deserializeObjectArray throws the ValidationError of fieldPath for a
\* raw value that is no array; for an array whose elements all succeed it
\* returns the elements' results, same length and order; otherwise it throws
\* the error of the first failing element, which is also the outcome for the
\* array cut off after that element.
C24_ObjectArray ==
    call = "deserializeObjectArray" =>
        IF ~IsArray(input.value)
        THEN ret = Throw(ValidationError(input.fieldPath, "array", TypeOf(input.value)))
        ELSE IF FailingElements = {}
        THEN /\ ret.ok
             /\ ret.v.k = "array"
             /\ Len(ret.v.v) = Len(input.value.v)
             /\ \A i \in 0..(Len(input.value.v) - 1) : ret.v.v[i + 1] = ElementOutcome(i).v
        ELSE LET first == CHOOSE i \in FailingElements : \A j \in FailingElements : i <= j
             IN  /\ ret = ElementOutcome(first)
                 /\ ret = deserializeObjectArray(Arr(SubSeq(input.value.v, 1, first + 1)),
                                                 input.ctor, input.fieldPath)

C24_Witness ==
    /\ call = "deserializeObjectArray"
    /\ IsArray(input.value)
    /\ Len(input.value.v) = 3
    /\ FailingElements = {1, 2}
    /\ ret = Throw(ValidationError(IndexedPath(S_authors, 1), "object", "string"))

(***************************************************************************)
(* SpecFailFast: the generated visitMap of Post, one loop iteration at a   *)
(* time, on documents whose title, author and tags entries come in every   *)
(* order and are valid or invalid. obj is the visitor's state: the cursor, *)
(* the properties assigned, the keys whose value was handed to a           *)
(* validator, the errors thrown, and the outcome once the loop is left.    *)
(***************************************************************************)
NewVisit(data) ==
    [cursor |-> MapAccess(data), props |-> <<>>, validated |-> <<>>, raised |-> <<>>,
     done |-> FALSE, result |-> Ok(Undef)]

\* A loop that notes the error of an invalid entry, goes on, and throws the
\* first error noted once the cursor is exhausted.
VisitMapIteration_collect(method, visit) ==
    LET r == nextEntry(visit.cursor)
    IN  IF r.out.k = "undefined"
        THEN [visit EXCEPT !.done = TRUE,
                           !.result = IF visit.raised = <<>>
                                      THEN Ok(Instance(method.struct, visit.props))
                                      ELSE Throw(visit.raised[1])]
        ELSE LET key == r.out.v[1].v
                 value == r.out.v[2]
                 c == MatchingCase(method.fieldMappings, key)
             IN  IF c = 0 THEN [visit EXCEPT !.cursor = r.cursor]
                 ELSE IF method.fieldMappings[c].guarded /\ value.k = "undefined"
                 THEN [visit EXCEPT !.cursor = r.cursor]
                 ELSE LET d == CallDeserialization(method.fieldMappings[c].deser, value)
                      IN  IF ~d.ok
                          THEN [visit EXCEPT !.cursor = r.cursor,
                                             !.validated = Append(@, key),
                                             !.raised = Append(@, d.v)]
                          ELSE [visit EXCEPT !.cursor = r.cursor,
                                             !.validated = Append(@, key),
                                             !.props = SetProp(@, method.fieldMappings[c].prop, d.v)]

\* while ((entry = map.nextEntry()) !== undefined) { switch (key) {...} }
\* return instance: one evaluation of the loop condition and, when it holds,
\* of the loop body.
VisitMapIteration(method, visit) ==
    LET r == nextEntry(visit.cursor)
    IN  IF r.out.k = "undefined"
        THEN [visit EXCEPT !.done = TRUE,
                           !.result = Ok(Instance(method.struct, visit.props))]
        ELSE LET key == r.out.v[1].v
                 value == r.out.v[2]
                 c == MatchingCase(method.fieldMappings, key)
             IN  IF c = 0 THEN [visit EXCEPT !.cursor = r.cursor]
                 ELSE IF method.fieldMappings[c].guarded /\ value.k = "undefined"
                 THEN [visit EXCEPT !.cursor = r.cursor]
                 ELSE LET d == CallDeserialization(method.fieldMappings[c].deser, value)
                      IN  IF ~d.ok
                          THEN [visit EXCEPT !.cursor = r.cursor,
                                             !.validated = Append(@, key),
                                             !.raised = Append(@, d.v),
                                             !.done = TRUE,
                                             !.result = d]
                          ELSE [visit EXCEPT !.cursor = r.cursor,
                                             !.validated = Append(@, key),
                                             !.props = SetProp(@, method.fieldMappings[c].prop, d.v)]

FailFastEntries ==
    [title : {<<S_title, Str(S_a)>>, <<S_title, Num(1)>>},
     author : {<<S_author, Obj(<<<<S_name, Str(S_a)>>, <<S_email_address, Str(S_n)>>>>)>>,
               <<S_author, Obj(<<<<S_name, Num(1)>>>>)>>,
               <<S_author, Str(S_a)>>},
     tags : {<<S_tags, Arr(<<Str(S_a)>>)>>, <<S_tags, Arr(<<Str(S_a), Num(1)>>)>>,
             <<S_tags, Str(S_a)>>}]

FailFastDocs ==
    UNION {{Obj(<<e.title, e.author, e.tags>>), Obj(<<e.title, e.tags, e.author>>),
            Obj(<<e.author, e.title, e.tags>>), Obj(<<e.author, e.tags, e.title>>),
            Obj(<<e.tags, e.title, e.author>>), Obj(<<e.tags, e.author, e.title>>)} :
           e \in FailFastEntries}

InitFailFast ==
    /\ input \in {[data |-> d] : d \in FailFastDocs}
    /\ call = NoCall
    /\ text = Ok(<<>>)
    /\ ret = Ok(Undef)
    /\ obj = NewVisit(input.data)

\* One turn of the loop of Post's visitMap; an error thrown leaves the loop,
\* deserializeStruct, deserialize and fromString, none of which catches.
FailFastIteration ==
    /\ ~obj.done
    /\ obj' = VisitMapIteration(generateDeserializeMethod("Post", PostFields), obj)
    /\ ret' = obj'.result
    /\ call' = "visitMap"
    /\ UNCHANGED <<input, text>>

\* fromString(JSON.stringify(data), Post), start to end
FailFastFromString ==
    /\ call = NoCall
    /\ call' = "fromString"
    /\ ret' = JsonFromString(JSONstringify(input.data), "Post")
    /\ obj' = [obj EXCEPT !.done = TRUE, !.result = ret']
    /\ UNCHANGED <<input, text>>

NextFailFast == FailFastIteration \/ FailFastFromString

SpecFailFast == InitFailFast /\ [][NextFailFast]_vars

\* What the generated case of entry number i (from 1) makes of its value.
EntryOutcome(i) ==
    LET method == generateDeserializeMethod("Post", PostFields)
        c == MatchingCase(method.fieldMappings, input.data.v[i][1])
    IN  CallDeserialization(method.fieldMappings[c].deser, input.data.v[i][2])

InvalidEntries == {i \in 1..Len(input.data.v) : ~EntryOutcome(i).ok}

\* C25: while the loop runs no error has been raised; when the document
\* has invalid entries the loop is left at the first of them in entry order:
\* one ValidationError has been raised, that entry's; the cursor has yielded
\* the entries up to it and no later one; only these were validated; and the
\* caller of fromString receives that same error.
C25_FailFastOrdering ==
    call = "visitMap" =>
        /\ ~obj.done => obj.raised = <<>>
        /\ (obj.done /\ InvalidEntries # {}) =>
              LET first == CHOOSE i \in InvalidEntries : \A j \in InvalidEntries : i <= j
              IN  /\ Len(obj.raised) = 1
                  /\ obj.raised[1].name = "ValidationError"
                  /\ obj.raised[1] = EntryOutcome(first).v
                  /\ obj.cursor.v[2] = first
                  /\ obj.validated = [i \in 1..first |-> input.data.v[i][1]]
                  /\ ret = Throw(obj.raised[1])
                  /\ ret = JsonFromString(JSONstringify(input.data), "Post")

C25_Witness ==
    /\ call = "visitMap"
    /\ obj.done
    /\ Cardinality(InvalidEntries) = 3
    /\ obj.cursor.v[2] = 1
    /\ ~ret.ok

\* The log is nextKey, nextValue, nextKey, nextValue, ... from the first call on.
KeyValuePairsOnly ==
    \A i \in 1..Len(obj.log) :
        obj.log[i][1] = (IF i % 2 = 1 THEN "nextKey" ELSE "nextValue")

\* C26: on a map cursor a nextValue that directly follows a nextKey which
\* returned key k returns the value stored under k; and when only such pairs
\* are called, the j-th nextKey returns the j-th key (undefined past the last
\* entry) and the j-th nextValue the j-th value.
C26_KeyValueProtocol ==
    obj.cursor.k = "MapAccess" =>
        /\ \A i \in 1..(Len(obj.log) - 1) :
              (/\ obj.log[i][1] = "nextKey"
               /\ obj.log[i][2].k # "undefined"
               /\ obj.log[i + 1][1] = "nextValue") =>
                  obj.log[i + 1][2] = GetProp(input.data.v, obj.log[i][2].v)
        /\ KeyValuePairsOnly =>
              \A i \in 1..Len(obj.log) :
                  LET j == (i + 1) \div 2
                  IN  IF j > Len(input.data.v) THEN obj.log[i][2].k = "undefined"
                      ELSE IF i % 2 = 1 THEN obj.log[i][2] = Str(input.data.v[j][1])
                      ELSE obj.log[i][2] = input.data.v[j][2]

\* C27: for the class as parsed, the generated [SERIALIZE] announces the
\* class name and as many fields as it has serializeField calls, and the keys
\* of these calls are, in order, the field names the generated [DESERIALIZE]
\* passes to deserializeStruct and the case labels of its visitMap, under the
\* same class name.
C27_GeneratedConsistency ==
    call # NoCall =>
        LET ser == generateSerializeMethod("T", input.cls)
            de == generateDeserializeMethod("T", input.cls)
            written == [i \in 1..Len(ser.fieldSerializations) |-> ser.fieldSerializations[i].key]
            handled == [i \in 1..Len(de.fieldMappings) |-> de.fieldMappings[i].key]
        IN  /\ ser.struct = "T"
            /\ de.struct = "T"
            /\ ser.len = Len(ser.fieldSerializations)
            /\ written = de.fieldNames
            /\ written = handled

C27_Witness ==
    /\ call = "parse"
    /\ Len(input.cls) = 2
    /\ input.cls[1].isIgnored
    /\ Truthy(input.cls[2].options.name)
    /\ generateSerializeMethod("T", input.cls).len = 1
    /\ generateDeserializeMethod("T", input.cls).fieldNames = <<S_n>>

(***************************************************************************)
(* SpecQuote: one string emitted as a scalar at each place the YAML        *)
(* backend writes one: serializeString, a struct field, a map entry and a  *)
(* sequence element. text is the scalar as it stands in the output, after  *)
(* the "p: " or "- " that introduces it.                                   *)
(***************************************************************************)
QuoteChars == {"a", ":", "-", "\n", "'", "\""}

QuoteStrings ==
    {<<>>} \cup {<<c>> : c \in QuoteChars} \cup {<<c, d>> : c \in QuoteChars, d \in QuoteChars}

\* The rest of the only line written, after a prefix of the given length.
ScalarAfter(lines, prefix) == SubSeq(YamlGetResult(lines), prefix + 1, Len(YamlGetResult(lines)))

InitQuote ==
    /\ input \in {[v |-> s] : s \in QuoteStrings}
    /\ call = NoCall
    /\ text = Ok(<<>>)
    /\ ret = Ok(Undef)
    /\ obj = Undef

\* new YamlSerializer().serializeString(v)
QuoteSerializeString ==
    /\ call = NoCall
    /\ call' = "serializeString"
    /\ text' = Ok(ScalarAfter(YamlSerializeString(<<>>, input.v), 0))
    /\ UNCHANGED <<input, ret, obj>>

\* serializeStruct("T", 1).serializeField("p", v)
QuoteSerializeField ==
    /\ call = NoCall
    /\ call' = "serializeField"
    /\ text' = Ok(ScalarAfter(YamlSerializeField(<<>>, 0, S_p, Str(input.v)).v, 3))
    /\ UNCHANGED <<input, ret, obj>>

\* serializeMap().serializeEntry("p", v)
QuoteSerializeEntry ==
    /\ call = NoCall
    /\ call' = "serializeEntry"
    /\ text' = Ok(ScalarAfter(YamlSerializeEntry(<<>>, 0, Str(S_p), Str(input.v)).v, 3))
    /\ UNCHANGED <<input, ret, obj>>

\* serializeSeq().serializeElement(v)
QuoteSerializeElement ==
    /\ call = NoCall
    /\ call' = "serializeElement"
    /\ text' = Ok(ScalarAfter(YamlSerializeElement(<<>>, 0, Str(input.v)).v, 2))
    /\ UNCHANGED <<input, ret, obj>>

NextQuote ==
    \/ QuoteSerializeString
    \/ QuoteSerializeField
    \/ QuoteSerializeEntry
    \/ QuoteSerializeElement

SpecQuote == InitQuote /\ [][NextQuote]_vars

\* The one rule: double quotes around a string that holds a newline, colon,
\* dash or quote character, inner double quotes escaped; any other string bare.
QuotedScalar(v) ==
    IF \E c \in {"\n", ":", "-", "'", "\""} : Includes(v, <<c>>)
    THEN <<"\"">> \o EscapeQuotes(v) \o <<"\"">>
    ELSE v

\* C28: at each of the four places the scalar written for a string is the
\* one the single quoting rule gives.
C28_ConsistentQuoting == call # NoCall => text.v = QuotedScalar(input.v)

(***************************************************************************)
(* SpecElements: an array of users handed as one value to a JSON struct,   *)
(* map or sequence serializer, which is then ended; text is                *)
(* JSON.stringify of the serializer's result.                              *)
(***************************************************************************)
ElementUsers == Authors \cup Users

InitElements ==
    /\ input \in {[value |-> Arr(s)] : s \in SeqsUpTo(ElementUsers, MaxArr)}
    /\ call = NoCall
    /\ text = Ok(<<>>)
    /\ ret = Ok(Undef)
    /\ obj = Undef

\* s = serializer.serializeStruct("T", 1); s.serializeField("authors", value); s.end()
ElementsSerializeField ==
    /\ call = NoCall
    /\ call' = "serializeField"
    /\ obj' = JsonGetResult(JsonObjectEnd(<<>>, JsonSerializeField(<<>>, S_authors, input.value).v))
    /\ text' = Ok(JSONstringify(obj'))
    /\ UNCHANGED <<input, ret>>

\* s = serializer.serializeMap(); s.serializeEntry("authors", value); s.end()
ElementsSerializeEntry ==
    /\ call = NoCall
    /\ call' = "serializeEntry"
    /\ obj' = JsonGetResult(JsonObjectEnd(<<>>, JsonSerializeEntry(<<>>, Str(S_authors), input.value).v))
    /\ text' = Ok(JSONstringify(obj'))
    /\ UNCHANGED <<input, ret>>

\* s = serializer.serializeSeq(); s.serializeElement(value); s.end()
ElementsSerializeElement ==
    /\ call = NoCall
    /\ call' = "serializeElement"
    /\ obj' = JsonGetResult(JsonSeqEnd(<<>>, JsonSerializeElement(<<>>, input.value).v))
    /\ text' = Ok(JSONstringify(obj'))
    /\ UNCHANGED <<input, ret>>

NextElements == ElementsSerializeField \/ ElementsSerializeEntry \/ ElementsSerializeElement

SpecElements == InitElements /\ [][NextElements]_vars

\* What a struct holds under a field whose value is this element itself.
AsDirectField(element) == GetProp(JsonSerializeField(<<>>, S_authors, element).v, S_authors)

\* The array with every element rendered as a direct field would be.
ElementsRendered == Arr([i \in 1..Len(input.value.v) |-> AsDirectField(input.value.v[i])])

\* C29: the text written for an array of users handed to serializeField,
\* serializeEntry or serializeElement holds each user as that user is
\* written when it is a direct struct field.
C29_ArrayElementsSerialized ==
    /\ call \in {"serializeField", "serializeEntry"} =>
          text.v = JSONstringify(Obj(<<<<S_authors, ElementsRendered>>>>))
    /\ call = "serializeElement" => text.v = JSONstringify(Arr(<<ElementsRendered>>))

(***************************************************************************)
(* SpecParse: YamlParser.parse as a machine. obj is the parser: its lines, *)
(* currentLine, the stack of the calls in progress (each parseValue,       *)
(* parseSequence or parseMap with its indent argument) and the numbers of  *)
(* the lines consumed by currentLine++, in the order they were consumed.   *)
(* The values built play no part in the control flow and are left out; a   *)
(* "return this.parseX(...)" is the callee taking the caller's place.      *)
(***************************************************************************)
MaxLines == 3

NewParser(yaml) ==
    [lines |-> YamlLines(yaml), currentLine |-> 0,
     stack |-> <<[fn |-> "parseValue", indent |-> 0]>>, consumed |-> <<>>]

Top(p) == p.stack[Len(p.stack)]

\* return
Return(p) == [p EXCEPT !.stack = SubSeq(@, 1, Len(@) - 1)]

\* this.currentLine++
Consume(p) == [p EXCEPT !.currentLine = @ + 1, !.consumed = Append(@, p.currentLine)]

\* One execution of parseValue's body up to its return or its call.
parseValueBody(p) ==
    IF p.currentLine >= Len(p.lines) THEN Return(p)
    ELSE LET line == p.lines[p.currentLine + 1]
             indent == getIndent(line)
             content == Trim(line)
         IN  IF content = <<>> \/ StartsWith(content, <<"#">>) THEN Consume(p)
             ELSE IF StartsWith(content, <<"-", " ">>)
             THEN [p EXCEPT !.stack[Len(p.stack)] = [fn |-> "parseSequence", indent |-> indent]]
             ELSE IF Includes(content, <<":", " ">>)
             THEN [p EXCEPT !.stack[Len(p.stack)] = [fn |-> "parseMap", indent |-> indent]]
             ELSE Return(Consume(p))

\* One evaluation of parseSequence's loop condition and, when it holds, one
\* turn of the loop up to the nested parseValue call, if any.
parseSequenceTurn(p) ==
    IF p.currentLine >= Len(p.lines) THEN Return(p)
    ELSE LET line == p.lines[p.currentLine + 1]
             lineIndent == getIndent(line)
             content == Trim(line)
         IN  IF lineIndent < Top(p).indent
                    \/ (~StartsWith(content, <<"-", " ">>) /\ content # <<>>)
             THEN Return(p)
             ELSE IF StartsWith(content, <<"-", " ">>)
             THEN IF Trim(SubSeq(content, 3, Len(content))) # <<>> THEN Consume(p)
                  ELSE [Consume(p) EXCEPT
                            !.stack = Append(@, [fn |-> "parseValue", indent |-> Top(p).indent + 2])]
             ELSE Consume(p)

\* A loop whose last branch leaves currentLine where it is.
parseMapTurn_stuck(p) ==
    IF p.currentLine >= Len(p.lines) THEN Return(p)
    ELSE LET line == p.lines[p.currentLine + 1]
             lineIndent == getIndent(line)
             content == Trim(line)
         IN  IF lineIndent < Top(p).indent \/ content = <<>> THEN Return(p)
             ELSE IF lineIndent = Top(p).indent /\ Includes(content, <<":", " ">>)
             THEN Consume(p)
             ELSE p

\* The same for parseMap.
parseMapTurn(p) ==
    IF p.currentLine >= Len(p.lines) THEN Return(p)
    ELSE LET line == p.lines[p.currentLine + 1]
             lineIndent == getIndent(line)
             content == Trim(line)
         IN  IF lineIndent < Top(p).indent \/ content = <<>> THEN Return(p)
             ELSE IF lineIndent = Top(p).indent /\ Includes(content, <<":", " ">>)
             THEN LET colonIndex == IndexOf(content, <<":", " ">>)
                      value == Trim(SubSeq(content, colonIndex + 3, Len(content)))
                  IN  IF value # <<>> THEN Consume(p)
                      ELSE [Consume(p) EXCEPT
                                !.stack = Append(@, [fn |-> "parseValue", indent |-> Top(p).indent + 2])]
             ELSE Consume(p)

ParserLines ==
    {<<>>, <<"#">>, <<"a">>, <<"-", " ", "a">>, <<"-", " ">>, <<"a", ":", " ", "b">>,
     <<"a", ":", " ">>, <<" ", " ", "-", " ", "a">>, <<" ", " ", "a", ":", " ", "b">>}

ParserTexts ==
    {Join(ls, <<"\n">>) : ls \in SeqsUpTo(ParserLines, MaxLines) \ {<<>>}}

InitParse ==
    /\ input \in {[yaml |-> t] : t \in ParserTexts}
    /\ call = NoCall
    /\ text = Ok(input.yaml)
    /\ ret = Ok(Undef)
    /\ obj = NewParser(input.yaml)

StepParseValue ==
    /\ obj.stack # <<>>
    /\ Top(obj).fn = "parseValue"
    /\ obj' = parseValueBody(obj)
    /\ call' = "parseValue"
    /\ UNCHANGED <<input, text, ret>>

StepParseSequence ==
    /\ obj.stack # <<>>
    /\ Top(obj).fn = "parseSequence"
    /\ obj' = parseSequenceTurn(obj)
    /\ call' = "parseSequence"
    /\ UNCHANGED <<input, text, ret>>

StepParseMap ==
    /\ obj.stack # <<>>
    /\ Top(obj).fn = "parseMap"
    /\ obj' = parseMapTurn(obj)
    /\ call' = "parseMap"
    /\ UNCHANGED <<input, text, ret>>

NextParse == StepParseValue \/ StepParseSequence \/ StepParseMap

SpecParse == InitParse /\ [][NextParse]_vars

\* The parser is one sequential computation: a step that can be taken is taken.
SpecParseLive == SpecParse /\ WF_vars(NextParse)

\* The step the parser takes next.
ParseStep(p) ==
    CASE p.stack = <<>> -> p
      [] Top(p).fn = "parseValue" -> parseValueBody(p)
      [] Top(p).fn = "parseSequence" -> parseSequenceTurn(p)
      [] OTHER -> parseMapTurn(p)

\* The step consumes a line, or returns, or is parseValue handing the
\* current line to a loop whose first turn consumes it.
Progress ==
    /\ obj'.currentLine >= obj.currentLine
    /\ \/ obj'.currentLine > obj.currentLine
       \/ Len(obj'.stack) < Len(obj.stack)
       \/ /\ Top(obj).fn = "parseValue"
          /\ ParseStep(obj').currentLine > obj'.currentLine

\* C30: parse returns on every text; no step moves currentLine back; every
\* step consumes a line or returns (parseValue may first hand the line to
\* parseSequence or parseMap, whose first turn consumes it); and the lines
\* consumed are numbered upwards, none twice.
C30_ParserTerminates ==
    /\ [][Progress]_vars
    /\ [](\A i \in 1..Len(obj.consumed) : \A j \in 1..Len(obj.consumed) :
              i < j => obj.consumed[i] < obj.consumed[j])
    /\ [](obj.currentLine <= Len(obj.lines))
    /\ <>(obj.stack = <<>>)

C30_Witness ==
    /\ obj.stack = <<>>
    /\ call = "parseMap"
    /\ Len(obj.lines) = 3
    /\ obj.consumed = <<0, 1, 2>>
    /\ obj.currentLine = parseValue(obj.lines, 0, 0).cur

====
